---- MODULE Spec2Model ----
(***************************************************************************)
(* A model of the MuSig2 trade-signing coordinator: the per-trade          *)
(* TradeModel (two KeyCtx, seven SigCtx) of protocol.rs, the process-wide  *)
(* TRADE_MODELS store, and the MuSig RPC handlers of rpc/src/server.rs.    *)
(*                                                                         *)
(* Cryptographic values are symbolic terms: a point, a nonce or a          *)
(* signature is the record of the inputs that determine it, so two values  *)
(* are equal exactly when they were computed from equal inputs.            *)
(***************************************************************************)
EXTENDS Integers, Sequences, FiniteSets, TLC

VARIABLES store, heap, last, ncalls, replies, tasks, store_mutex, trade_mutex

vars == <<store, heap, last, ncalls, replies, tasks, store_mutex, trade_mutex>>

(***************************************************************************)
(* Bounds of the model.                                                    *)
(***************************************************************************)
\* Scalars the RPC client may send are 1..MaxScalar.
MaxScalar == 2
\* Nonce seeds a peer may have used are 0..MaxSeed.
MaxSeed == 0
\* Calls made to the service in one run.
MaxCalls == 5

(***************************************************************************)
(* Option<T>: None is the empty tuple, Some(x) the one-element tuple.      *)
(***************************************************************************)
None == <<>>
Some(x) == <<x>>
IsSome(o) == o # <<>>
IsNone(o) == o = <<>>
Unwrap(o) == o[1]

(***************************************************************************)
(* secp / musig2 primitives, as symbolic terms.                            *)
(***************************************************************************)
Scalars == 1..MaxScalar

\* Scalar::one()
ScalarOne == 1

\* The fixed nonce seed [0; 32] of SigCtx::init_my_nonce_share.
NonceSeed == 0

\* Scalar::base_point_mul: the point s*G.
BasePointMul(s) == [mul |-> s]

Points == {BasePointMul(s) : s \in Scalars}

\* KeyAggContext::new over an ordered list of two key shares.  The context
\* (and the aggregated key) depends on the order of the list.
KeyAggContext_new(pubkeys) == [pubkeys |-> pubkeys]

\* KeyAggContext::aggregated_pubkey
aggregated_pubkey(key_agg_ctx) == [agg |-> key_agg_ctx.pubkeys]

\* SecNonceBuilder::new(seed).with_aggregated_pubkey(key).build(): the
\* secret nonce is a deterministic function of the seed and the key.
SecNonceBuilder_build(nonce_seed, aggregated_pub_key) ==
    [seed |-> nonce_seed, aggregated_pubkey |-> aggregated_pub_key]

\* SecNonce::public_nonce
public_nonce(sec_nonce) == [pub_of |-> sec_nonce]

\* AggNonce::sum: a sum of two public nonces, which does not depend on
\* their order.
AggNonce_sum(nonces) == [sum |-> {nonces[1], nonces[2]}]

\* musig2::sign_partial: fails when the secret key is not one of the
\* context's keys; the partial signature is determined by the context, the
\* signer's key and nonce, the aggregated nonce and the message.
musig2_sign_partial(key_agg_ctx, seckey, secnonce, aggregated_nonce, message) ==
    IF \A i \in 1..Len(key_agg_ctx.pubkeys) : key_agg_ctx.pubkeys[i] # BasePointMul(seckey)
    THEN [res |-> "Signing", sig |-> None]
    ELSE [res |-> "Ok",
          sig |-> Some([key_agg_ctx |-> key_agg_ctx,
                        signer |-> BasePointMul(seckey),
                        pub_nonce |-> public_nonce(secnonce),
                        aggregated_nonce |-> aggregated_nonce,
                        message |-> message])]

\* A partial signature that verifies for the given signer and public nonce.
PartialSigOf(key_agg_ctx, signer, pub_nonce, aggregated_nonce, message) ==
    [key_agg_ctx |-> key_agg_ctx, signer |-> signer, pub_nonce |-> pub_nonce,
     aggregated_nonce |-> aggregated_nonce, message |-> message]

\* musig2::aggregate_partial_signatures: sums the two partial signatures and
\* verifies the sum under the aggregated key; the sum verifies when the two
\* partial signatures are those of the context's two signers, under the
\* given aggregated nonce and message.
musig2_aggregate_partial_signatures(key_agg_ctx, aggregated_nonce, partial_signatures, message) ==
    LET s1 == partial_signatures[1]
        s2 == partial_signatures[2]
        k == key_agg_ctx.pubkeys
        bound(s) == /\ s.key_agg_ctx = key_agg_ctx
                    /\ s.aggregated_nonce = aggregated_nonce
                    /\ s.message = message
    IN IF /\ bound(s1) /\ bound(s2)
          /\ \/ s1.signer = k[1] /\ s2.signer = k[2]
             \/ s1.signer = k[2] /\ s2.signer = k[1]
          /\ AggNonce_sum(<<s1.pub_nonce, s2.pub_nonce>>) = aggregated_nonce
       THEN [res |-> "Ok",
             sig |-> Some([aggregated_pubkey |-> aggregated_pubkey(key_agg_ctx),
                           aggregated_nonce |-> aggregated_nonce,
                           message |-> message])]
       ELSE [res |-> "Verify", sig |-> None]

(***************************************************************************)
(* The names of the fields of TradeModel.                                  *)
(***************************************************************************)
Roles == {"SellerAsMaker", "SellerAsTaker", "BuyerAsMaker", "BuyerAsTaker"}

KeyCtxs == {"buyer_output_key_ctx", "seller_output_key_ctx"}

Slots == {"swap_tx_input_sig_ctx",
          "buyers_warning_tx_buyer_input_sig_ctx",
          "buyers_warning_tx_seller_input_sig_ctx",
          "sellers_warning_tx_buyer_input_sig_ctx",
          "sellers_warning_tx_seller_input_sig_ctx",
          "buyers_redirect_tx_input_sig_ctx",
          "sellers_redirect_tx_input_sig_ctx"}

\* The fixed messages (txs-to-sign) of TradeModel::sign_partial.
Message(slot) ==
    CASE slot = "buyers_warning_tx_buyer_input_sig_ctx" -> "buyer's warning tx buyer input"
      [] slot = "sellers_warning_tx_buyer_input_sig_ctx" -> "seller's warning tx buyer input"
      [] slot = "buyers_redirect_tx_input_sig_ctx" -> "buyer's redirect tx input"
      [] slot = "swap_tx_input_sig_ctx" -> "swap tx input"
      [] slot = "buyers_warning_tx_seller_input_sig_ctx" -> "buyer's warning tx seller input"
      [] slot = "sellers_warning_tx_seller_input_sig_ctx" -> "seller's warning tx seller input"
      [] slot = "sellers_redirect_tx_input_sig_ctx" -> "seller's redirect tx input"

(***************************************************************************)
(* KeyPair, NoncePair, KeyCtx, SigCtx.                                     *)
(***************************************************************************)
\* KeyPair::new: the dummy key pair (1*G, 1).
KeyPair_new == [pub_key |-> BasePointMul(ScalarOne), prv_key |-> ScalarOne]

\* NoncePair::new
NoncePair_new(nonce_seed, aggregated_pub_key) ==
    LET sec_nonce == SecNonceBuilder_build(nonce_seed, aggregated_pub_key)
    IN [pub_nonce |-> public_nonce(sec_nonce), sec_nonce |-> Some(sec_nonce)]

\* KeyCtx::default()
KeyCtx_default ==
    [am_buyer |-> FALSE, my_key_share |-> None, peers_key_share |-> None,
     aggregated_pub_key |-> None, key_agg_ctx |-> None]

\* SigCtx::default()
SigCtx_default ==
    [am_buyer |-> FALSE, my_nonce_share |-> None, peers_nonce_share |-> None,
     aggregated_nonce |-> None, message |-> None, my_partial_sig |-> None,
     peers_partial_sig |-> None, aggregated_sig |-> None]

\* KeyCtx::init_my_key_share
KeyCtx_init_my_key_share(key_ctx) ==
    [key_ctx EXCEPT !.my_key_share = Some(KeyPair_new)]

\* A faulty order of the key shares, [own, peer] whatever the role, against
\* which the agreement of the two parties on the aggregated key is checked.
KeyCtx_get_key_shares_own_first(key_ctx) ==
    IF IsNone(key_ctx.my_key_share) \/ IsNone(key_ctx.peers_key_share) THEN None
    ELSE Some(<<Unwrap(key_ctx.my_key_share).pub_key, Unwrap(key_ctx.peers_key_share)>>)

\* KeyCtx::get_key_shares: [own, peer] for a buyer, [peer, own] for a seller.
KeyCtx_get_key_shares(key_ctx) ==
    IF key_ctx.am_buyer
    THEN IF IsNone(key_ctx.my_key_share) \/ IsNone(key_ctx.peers_key_share) THEN None
         ELSE Some(<<Unwrap(key_ctx.my_key_share).pub_key, Unwrap(key_ctx.peers_key_share)>>)
    ELSE IF IsNone(key_ctx.peers_key_share) \/ IsNone(key_ctx.my_key_share) THEN None
         ELSE Some(<<Unwrap(key_ctx.peers_key_share), Unwrap(key_ctx.my_key_share).pub_key>>)

\* KeyCtx::aggregate_key_shares
KeyCtx_aggregate_key_shares(key_ctx) ==
    LET key_shares == KeyCtx_get_key_shares(key_ctx)
    IN IF IsNone(key_shares)
       THEN [ctx |-> key_ctx, res |-> "MissingKeyShare"]
       ELSE LET agg_ctx == KeyAggContext_new(Unwrap(key_shares))
            IN [ctx |-> [key_ctx EXCEPT !.aggregated_pub_key = Some(aggregated_pubkey(agg_ctx)),
                                        !.key_agg_ctx = Some(agg_ctx)],
                res |-> "Ok"]

\* SigCtx::init_my_nonce_share
SigCtx_init_my_nonce_share(sig_ctx, key_ctx) ==
    IF IsNone(key_ctx.aggregated_pub_key)
    THEN [ctx |-> sig_ctx, res |-> "MissingAggPubKey"]
    ELSE [ctx |-> [sig_ctx EXCEPT !.my_nonce_share =
                       Some(NoncePair_new(NonceSeed, Unwrap(key_ctx.aggregated_pub_key)))],
          res |-> "Ok"]

\* SigCtx::get_nonce_shares
SigCtx_get_nonce_shares(sig_ctx) ==
    IF IsNone(sig_ctx.my_nonce_share) \/ IsNone(sig_ctx.peers_nonce_share) THEN None
    ELSE IF sig_ctx.am_buyer
         THEN Some(<<Unwrap(sig_ctx.my_nonce_share).pub_nonce, Unwrap(sig_ctx.peers_nonce_share)>>)
         ELSE Some(<<Unwrap(sig_ctx.peers_nonce_share), Unwrap(sig_ctx.my_nonce_share).pub_nonce>>)

\* aggregate_nonce_shares that sums what it has: the own nonce alone while
\* the peer's is missing.
SigCtx_aggregate_nonce_shares_own_only(sig_ctx) ==
    IF IsNone(sig_ctx.my_nonce_share)
    THEN [ctx |-> sig_ctx, res |-> "MissingKeyShare"]
    ELSE LET mine == Unwrap(sig_ctx.my_nonce_share).pub_nonce
             peers == IF IsNone(sig_ctx.peers_nonce_share) THEN mine
                      ELSE Unwrap(sig_ctx.peers_nonce_share)
         IN [ctx |-> [sig_ctx EXCEPT !.aggregated_nonce = Some(AggNonce_sum(<<mine, peers>>))],
             res |-> "Ok"]

\* SigCtx::aggregate_nonce_shares
SigCtx_aggregate_nonce_shares(sig_ctx) ==
    LET nonce_shares == SigCtx_get_nonce_shares(sig_ctx)
    IN IF IsNone(nonce_shares)
       THEN [ctx |-> sig_ctx, res |-> "MissingKeyShare"]
       ELSE [ctx |-> [sig_ctx EXCEPT !.aggregated_nonce = Some(AggNonce_sum(Unwrap(nonce_shares)))],
             res |-> "Ok"]

\* sign_partial that returns the partial signature made without keeping it
\* in the slot.
SigCtx_sign_partial_not_kept(sig_ctx, key_ctx, message) ==
    IF IsNone(key_ctx.key_agg_ctx) THEN [ctx |-> sig_ctx, res |-> "MissingAggPubKey"]
    ELSE IF IsNone(key_ctx.my_key_share) THEN [ctx |-> sig_ctx, res |-> "MissingKeyShare"]
    ELSE IF IsNone(sig_ctx.my_nonce_share) THEN [ctx |-> sig_ctx, res |-> "MissingNonceShare"]
    ELSE IF IsNone(Unwrap(sig_ctx.my_nonce_share).sec_nonce)
         THEN [ctx |-> sig_ctx, res |-> "NonceReuse"]
    ELSE IF IsNone(sig_ctx.aggregated_nonce) THEN [ctx |-> sig_ctx, res |-> "MissingAggNonce"]
    ELSE [ctx |-> [sig_ctx EXCEPT !.message = Some(message),
                                  !.my_nonce_share =
                                      Some([Unwrap(sig_ctx.my_nonce_share)
                                                EXCEPT !.sec_nonce = None])],
          res |-> "Ok"]

\* SigCtx::sign_partial.  The secret nonce is taken out of the nonce pair
\* before the aggregated nonce is looked up.
SigCtx_sign_partial(sig_ctx, key_ctx, message) ==
    IF IsNone(key_ctx.key_agg_ctx) THEN [ctx |-> sig_ctx, res |-> "MissingAggPubKey"]
    ELSE IF IsNone(key_ctx.my_key_share) THEN [ctx |-> sig_ctx, res |-> "MissingKeyShare"]
    ELSE IF IsNone(sig_ctx.my_nonce_share) THEN [ctx |-> sig_ctx, res |-> "MissingNonceShare"]
    ELSE LET secnonce == Unwrap(sig_ctx.my_nonce_share).sec_nonce
             taken == [sig_ctx EXCEPT !.my_nonce_share =
                          Some([Unwrap(sig_ctx.my_nonce_share) EXCEPT !.sec_nonce = None])]
         IN IF IsNone(secnonce) THEN [ctx |-> taken, res |-> "NonceReuse"]
            ELSE IF IsNone(sig_ctx.aggregated_nonce) THEN [ctx |-> taken, res |-> "MissingAggNonce"]
            ELSE LET signed == musig2_sign_partial(Unwrap(key_ctx.key_agg_ctx),
                                   Unwrap(key_ctx.my_key_share).prv_key, Unwrap(secnonce),
                                   Unwrap(sig_ctx.aggregated_nonce), message)
                 IN IF signed.res # "Ok" THEN [ctx |-> taken, res |-> signed.res]
                    ELSE [ctx |-> [taken EXCEPT !.message = Some(message),
                                                !.my_partial_sig = signed.sig],
                          res |-> "Ok"]

\* get_partial_signatures that stands the own partial signature in for a
\* missing one of the peer.
SigCtx_get_partial_signatures_own_twice(sig_ctx) ==
    IF IsNone(sig_ctx.my_partial_sig) THEN None
    ELSE IF IsNone(sig_ctx.peers_partial_sig)
         THEN Some(<<Unwrap(sig_ctx.my_partial_sig), Unwrap(sig_ctx.my_partial_sig)>>)
    ELSE IF sig_ctx.am_buyer
         THEN Some(<<Unwrap(sig_ctx.my_partial_sig), Unwrap(sig_ctx.peers_partial_sig)>>)
         ELSE Some(<<Unwrap(sig_ctx.peers_partial_sig), Unwrap(sig_ctx.my_partial_sig)>>)

\* SigCtx::get_partial_signatures
SigCtx_get_partial_signatures(sig_ctx) ==
    IF IsNone(sig_ctx.my_partial_sig) \/ IsNone(sig_ctx.peers_partial_sig) THEN None
    ELSE IF sig_ctx.am_buyer
         THEN Some(<<Unwrap(sig_ctx.my_partial_sig), Unwrap(sig_ctx.peers_partial_sig)>>)
         ELSE Some(<<Unwrap(sig_ctx.peers_partial_sig), Unwrap(sig_ctx.my_partial_sig)>>)

\* aggregate_partial_signatures that reports missing partial signatures
\* with the error kind of a neighbouring check.
SigCtx_aggregate_partial_signatures_wrong_kind(sig_ctx, key_ctx) ==
    IF IsNone(key_ctx.key_agg_ctx) THEN [ctx |-> sig_ctx, res |-> "MissingAggPubKey"]
    ELSE IF IsNone(sig_ctx.aggregated_nonce) THEN [ctx |-> sig_ctx, res |-> "MissingAggNonce"]
    ELSE IF IsNone(SigCtx_get_partial_signatures(sig_ctx))
         THEN [ctx |-> sig_ctx, res |-> "MissingAggNonce"]
    ELSE IF IsNone(sig_ctx.message) THEN [ctx |-> sig_ctx, res |-> "MissingPartialSig"]
    ELSE LET agg == musig2_aggregate_partial_signatures(Unwrap(key_ctx.key_agg_ctx),
                        Unwrap(sig_ctx.aggregated_nonce),
                        Unwrap(SigCtx_get_partial_signatures(sig_ctx)),
                        Unwrap(sig_ctx.message))
         IN IF agg.res # "Ok" THEN [ctx |-> sig_ctx, res |-> agg.res]
            ELSE [ctx |-> [sig_ctx EXCEPT !.aggregated_sig = agg.sig], res |-> "Ok"]

\* SigCtx::aggregate_partial_signatures
SigCtx_aggregate_partial_signatures(sig_ctx, key_ctx) ==
    IF IsNone(key_ctx.key_agg_ctx) THEN [ctx |-> sig_ctx, res |-> "MissingAggPubKey"]
    ELSE IF IsNone(sig_ctx.aggregated_nonce) THEN [ctx |-> sig_ctx, res |-> "MissingAggNonce"]
    ELSE IF IsNone(SigCtx_get_partial_signatures(sig_ctx))
         THEN [ctx |-> sig_ctx, res |-> "MissingPartialSig"]
    ELSE IF IsNone(sig_ctx.message) THEN [ctx |-> sig_ctx, res |-> "MissingPartialSig"]
    ELSE LET agg == musig2_aggregate_partial_signatures(Unwrap(key_ctx.key_agg_ctx),
                        Unwrap(sig_ctx.aggregated_nonce),
                        Unwrap(SigCtx_get_partial_signatures(sig_ctx)),
                        Unwrap(sig_ctx.message))
         IN IF agg.res # "Ok" THEN [ctx |-> sig_ctx, res |-> agg.res]
            ELSE [ctx |-> [sig_ctx EXCEPT !.aggregated_sig = agg.sig], res |-> "Ok"]

(***************************************************************************)
(* TradeModel.  A TradeModel operation yields the model after the call,    *)
(* its result ("Ok" or the ProtocolErrorKind) and the SigCtx / KeyCtx      *)
(* calls it made, each with the key context it was handed.                 *)
(***************************************************************************)
Result(m, res, calls) == [m |-> m, res |-> res, calls |-> calls]

Call(fn, slot, key_ctx, res) == [fn |-> fn, slot |-> slot, key_ctx |-> key_ctx, res |-> res]

\* No key context is handed to the call (SigCtx::aggregate_nonce_shares).
NoKeyCtx == "-"

\* am_buyer that takes only the maker for a buyer.
am_buyer_as_maker(my_role) == my_role = "BuyerAsMaker"

\* TradeModel::am_buyer
am_buyer(my_role) == my_role = "BuyerAsMaker" \/ my_role = "BuyerAsTaker"

\* TradeModel::new
TradeModel_new(trade_id, my_role) ==
    [trade_id |-> trade_id,
     my_role |-> my_role,
     trade_amount |-> None,
     buyers_security_deposit |-> None,
     sellers_security_deposit |-> None,
     deposit_tx_fee_rate |-> None,
     prepared_tx_fee_rate |-> None,
     buyer_output_key_ctx |-> [KeyCtx_default EXCEPT !.am_buyer = am_buyer(my_role)],
     seller_output_key_ctx |-> [KeyCtx_default EXCEPT !.am_buyer = am_buyer(my_role)],
     swap_tx_input_adaptor |-> None,
     swap_tx_input_sig_ctx |-> [SigCtx_default EXCEPT !.am_buyer = am_buyer(my_role)],
     buyers_warning_tx_buyer_input_sig_ctx |-> [SigCtx_default EXCEPT !.am_buyer = am_buyer(my_role)],
     buyers_warning_tx_seller_input_sig_ctx |-> [SigCtx_default EXCEPT !.am_buyer = am_buyer(my_role)],
     sellers_warning_tx_buyer_input_sig_ctx |-> [SigCtx_default EXCEPT !.am_buyer = am_buyer(my_role)],
     sellers_warning_tx_seller_input_sig_ctx |-> [SigCtx_default EXCEPT !.am_buyer = am_buyer(my_role)],
     buyers_redirect_tx_input_sig_ctx |-> [SigCtx_default EXCEPT !.am_buyer = am_buyer(my_role)],
     sellers_redirect_tx_input_sig_ctx |-> [SigCtx_default EXCEPT !.am_buyer = am_buyer(my_role)]]

\* TradeModel::init_my_key_shares
TradeModel_init_my_key_shares(m) ==
    [m EXCEPT !.buyer_output_key_ctx = KeyCtx_init_my_key_share(@),
              !.seller_output_key_ctx = KeyCtx_init_my_key_share(@)]

\* TradeModel::get_my_key_shares
TradeModel_get_my_key_shares(m) ==
    IF IsNone(m.buyer_output_key_ctx.my_key_share) \/ IsNone(m.seller_output_key_ctx.my_key_share)
    THEN None
    ELSE Some(<<Unwrap(m.buyer_output_key_ctx.my_key_share),
                Unwrap(m.seller_output_key_ctx.my_key_share)>>)

\* TradeModel::set_peer_key_shares
TradeModel_set_peer_key_shares(m, buyer_output_pub_key, seller_output_pub_key) ==
    [m EXCEPT !.buyer_output_key_ctx.peers_key_share = Some(buyer_output_pub_key),
              !.seller_output_key_ctx.peers_key_share = Some(seller_output_pub_key)]

\* TradeModel::aggregate_key_shares: the buyer output first; the seller
\* output is not reached when the buyer output fails.
TradeModel_aggregate_key_shares(m) ==
    LET b == KeyCtx_aggregate_key_shares(m.buyer_output_key_ctx)
        m1 == [m EXCEPT !.buyer_output_key_ctx = b.ctx]
        s == KeyCtx_aggregate_key_shares(m1.seller_output_key_ctx)
        m2 == [m1 EXCEPT !.seller_output_key_ctx = s.ctx]
        c1 == Call("aggregate_key_shares", NoKeyCtx, "buyer_output_key_ctx", b.res)
        c2 == Call("aggregate_key_shares", NoKeyCtx, "seller_output_key_ctx", s.res)
    IN IF b.res # "Ok" THEN Result(m1, b.res, <<c1>>)
       ELSE Result(m2, s.res, <<c1, c2>>)

\* One SigCtx call of a TradeModel operation.
SigCtxCall(fn, m, slot, key_ctx) ==
    CASE fn = "init_my_nonce_share" -> SigCtx_init_my_nonce_share(m[slot], m[key_ctx])
      [] fn = "aggregate_nonce_shares" -> SigCtx_aggregate_nonce_shares(m[slot])
      [] fn = "sign_partial" -> SigCtx_sign_partial(m[slot], m[key_ctx], Message(slot))
      [] fn = "aggregate_partial_signatures" ->
             SigCtx_aggregate_partial_signatures(m[slot], m[key_ctx])

\* A sequence of SigCtx calls, each followed by `?': the first error ends
\* the operation, and what the earlier calls stored stays in the model.
RECURSIVE ForEachSigCtx(_, _, _, _)

\* The `?' after the call for the first slot of the plan, r being what the
\* call returned.
QuestionMark(fn, m, plan, calls, r) ==
    LET slot == plan[1][1]
        key_ctx == plan[1][2]
        m1 == [m EXCEPT ![slot] = r.ctx]
        calls1 == Append(calls, Call(fn, slot, key_ctx, r.res))
    IN IF r.res # "Ok" THEN Result(m1, r.res, calls1)
       ELSE ForEachSigCtx(fn, m1, Tail(plan), calls1)

ForEachSigCtx(fn, m, plan, calls) ==
    IF plan = <<>> THEN Result(m, "Ok", calls)
    ELSE QuestionMark(fn, m, plan, calls, SigCtxCall(fn, m, plan[1][1], plan[1][2]))

\* The slots of TradeModel::init_my_nonce_shares, with their key contexts.
init_my_nonce_shares_plan ==
    << <<"buyers_warning_tx_buyer_input_sig_ctx", "buyer_output_key_ctx">>,
       <<"sellers_warning_tx_buyer_input_sig_ctx", "buyer_output_key_ctx">>,
       <<"buyers_redirect_tx_input_sig_ctx", "buyer_output_key_ctx">>,
       <<"swap_tx_input_sig_ctx", "seller_output_key_ctx">>,
       <<"buyers_warning_tx_seller_input_sig_ctx", "seller_output_key_ctx">>,
       <<"sellers_warning_tx_seller_input_sig_ctx", "seller_output_key_ctx">>,
       <<"sellers_redirect_tx_input_sig_ctx", "seller_output_key_ctx">> >>

\* TradeModel::init_my_nonce_shares
TradeModel_init_my_nonce_shares(m) ==
    ForEachSigCtx("init_my_nonce_share", m, init_my_nonce_shares_plan, <<>>)

\* TradeModel::get_my_nonce_shares
TradeModel_get_my_nonce_shares(m) ==
    IF \E slot \in Slots : IsNone(m[slot].my_nonce_share) THEN None
    ELSE Some([slot \in Slots |-> Unwrap(m[slot].my_nonce_share).pub_nonce])

\* TradeModel::set_peer_nonce_shares
TradeModel_set_peer_nonce_shares(m, peer_nonce_shares) ==
    [m EXCEPT
       !.swap_tx_input_sig_ctx.peers_nonce_share =
           Some(peer_nonce_shares["swap_tx_input_sig_ctx"]),
       !.buyers_warning_tx_buyer_input_sig_ctx.peers_nonce_share =
           Some(peer_nonce_shares["buyers_warning_tx_buyer_input_sig_ctx"]),
       !.buyers_warning_tx_seller_input_sig_ctx.peers_nonce_share =
           Some(peer_nonce_shares["buyers_warning_tx_seller_input_sig_ctx"]),
       !.sellers_warning_tx_buyer_input_sig_ctx.peers_nonce_share =
           Some(peer_nonce_shares["sellers_warning_tx_buyer_input_sig_ctx"]),
       !.sellers_warning_tx_seller_input_sig_ctx.peers_nonce_share =
           Some(peer_nonce_shares["sellers_warning_tx_seller_input_sig_ctx"]),
       !.buyers_redirect_tx_input_sig_ctx.peers_nonce_share =
           Some(peer_nonce_shares["buyers_redirect_tx_input_sig_ctx"]),
       !.sellers_redirect_tx_input_sig_ctx.peers_nonce_share =
           Some(peer_nonce_shares["sellers_redirect_tx_input_sig_ctx"])]

\* The slots of TradeModel::aggregate_nonce_shares, in order.
aggregate_nonce_shares_plan ==
    << <<"swap_tx_input_sig_ctx", NoKeyCtx>>,
       <<"buyers_warning_tx_buyer_input_sig_ctx", NoKeyCtx>>,
       <<"buyers_warning_tx_seller_input_sig_ctx", NoKeyCtx>>,
       <<"sellers_warning_tx_buyer_input_sig_ctx", NoKeyCtx>>,
       <<"sellers_warning_tx_seller_input_sig_ctx", NoKeyCtx>>,
       <<"buyers_redirect_tx_input_sig_ctx", NoKeyCtx>>,
       <<"sellers_redirect_tx_input_sig_ctx", NoKeyCtx>> >>

\* TradeModel::aggregate_nonce_shares
TradeModel_aggregate_nonce_shares(m) ==
    ForEachSigCtx("aggregate_nonce_shares", m, aggregate_nonce_shares_plan, <<>>)

\* The slots of TradeModel::sign_partial, with their key contexts.
sign_partial_plan ==
    << <<"buyers_warning_tx_buyer_input_sig_ctx", "buyer_output_key_ctx">>,
       <<"sellers_warning_tx_buyer_input_sig_ctx", "buyer_output_key_ctx">>,
       <<"buyers_redirect_tx_input_sig_ctx", "buyer_output_key_ctx">>,
       <<"swap_tx_input_sig_ctx", "seller_output_key_ctx">>,
       <<"buyers_warning_tx_seller_input_sig_ctx", "seller_output_key_ctx">>,
       <<"sellers_warning_tx_seller_input_sig_ctx", "seller_output_key_ctx">>,
       <<"sellers_redirect_tx_input_sig_ctx", "seller_output_key_ctx">> >>

\* The adaptor the seller derives in TradeModel::sign_partial: the
\* difference of a private key share and a signature share.
AdaptorOf(prv_key_share, sig_share) == [prv_key |-> prv_key_share, minus |-> sig_share]

\* seller_key_ctx of TradeModel::sign_partial: the key context of the
\* seller's output, whose private key share the seller's adaptor is derived
\* from.
seller_key_ctx == "seller_output_key_ctx"

\* The end of TradeModel::sign_partial, r being the outcome of the seven
\* SigCtx calls: a seller derives the adaptor from seller_output_key_ctx's
\* private key share and the swap-tx signature share.  An unwrap of None
\* panics.
sign_partial_adaptor(r) ==
    IF r.res # "Ok" THEN r
    ELSE IF am_buyer(r.m.my_role) THEN r
    ELSE IF \/ IsNone(r.m[seller_key_ctx].my_key_share)
            \/ IsNone(r.m.swap_tx_input_sig_ctx.my_partial_sig)
         THEN Result(r.m, "Panic", r.calls)
    ELSE LET sellers_prv_key_share == Unwrap(r.m[seller_key_ctx].my_key_share).prv_key
             sellers_sig_share == Unwrap(r.m.swap_tx_input_sig_ctx.my_partial_sig)
         IN Result([r.m EXCEPT !.swap_tx_input_adaptor =
                        Some(AdaptorOf(sellers_prv_key_share, sellers_sig_share))],
                   "Ok", r.calls)

\* TradeModel::sign_partial: the seven slots, then the adaptor.
TradeModel_sign_partial(m) ==
    sign_partial_adaptor(ForEachSigCtx("sign_partial", m, sign_partial_plan, <<>>))

\* SwapTxInputScalar: the buyer's partial signature or the seller's adaptor.
BuyersPartialSignature(sig) == [kind |-> "BuyersPartialSignature", scalar |-> sig]
SellersAdaptor(adaptor) == [kind |-> "SellersAdaptor", scalar |-> adaptor]

\* ExchangedSigs
ExchangedSigs(buyer_input_sig, seller_input_sig, redirect_sig, swap_tx_input_scalar) ==
    [peers_warning_tx_buyer_input_partial_signature |-> buyer_input_sig,
     peers_warning_tx_seller_input_partial_signature |-> seller_input_sig,
     peers_redirect_tx_input_partial_signature |-> redirect_sig,
     swap_tx_input_scalar |-> swap_tx_input_scalar]

\* get_my_partial_signatures_on_peer_txs that reads the slots of the
\* party's own txs in place of those of the peer's.
TradeModel_get_my_partial_signatures_on_my_txs(m) ==
    IF ~am_buyer(m.my_role)
    THEN IF \/ IsNone(m.sellers_warning_tx_buyer_input_sig_ctx.my_partial_sig)
            \/ IsNone(m.sellers_warning_tx_seller_input_sig_ctx.my_partial_sig)
            \/ IsNone(m.sellers_redirect_tx_input_sig_ctx.my_partial_sig)
            \/ IsNone(m.swap_tx_input_adaptor)
         THEN None
         ELSE Some(ExchangedSigs(
                  Unwrap(m.sellers_warning_tx_buyer_input_sig_ctx.my_partial_sig),
                  Unwrap(m.sellers_warning_tx_seller_input_sig_ctx.my_partial_sig),
                  Unwrap(m.sellers_redirect_tx_input_sig_ctx.my_partial_sig),
                  Some(SellersAdaptor(Unwrap(m.swap_tx_input_adaptor)))))
    ELSE IF \/ IsNone(m.buyers_warning_tx_buyer_input_sig_ctx.my_partial_sig)
            \/ IsNone(m.buyers_warning_tx_seller_input_sig_ctx.my_partial_sig)
            \/ IsNone(m.buyers_redirect_tx_input_sig_ctx.my_partial_sig)
            \/ IsNone(m.swap_tx_input_sig_ctx.my_partial_sig)
         THEN None
         ELSE Some(ExchangedSigs(
                  Unwrap(m.buyers_warning_tx_buyer_input_sig_ctx.my_partial_sig),
                  Unwrap(m.buyers_warning_tx_seller_input_sig_ctx.my_partial_sig),
                  Unwrap(m.buyers_redirect_tx_input_sig_ctx.my_partial_sig),
                  Some(BuyersPartialSignature(Unwrap(m.swap_tx_input_sig_ctx.my_partial_sig)))))

\* TradeModel::get_my_partial_signatures_on_peer_txs: a buyer hands out its
\* partial signatures on the seller's warning and redirect txs and its
\* partial signature on the swap tx; a seller those on the buyer's txs and
\* its adaptor.
TradeModel_get_my_partial_signatures_on_peer_txs(m) ==
    IF am_buyer(m.my_role)
    THEN IF \/ IsNone(m.sellers_warning_tx_buyer_input_sig_ctx.my_partial_sig)
            \/ IsNone(m.sellers_warning_tx_seller_input_sig_ctx.my_partial_sig)
            \/ IsNone(m.sellers_redirect_tx_input_sig_ctx.my_partial_sig)
            \/ IsNone(m.swap_tx_input_sig_ctx.my_partial_sig)
         THEN None
         ELSE Some(ExchangedSigs(
                  Unwrap(m.sellers_warning_tx_buyer_input_sig_ctx.my_partial_sig),
                  Unwrap(m.sellers_warning_tx_seller_input_sig_ctx.my_partial_sig),
                  Unwrap(m.sellers_redirect_tx_input_sig_ctx.my_partial_sig),
                  Some(BuyersPartialSignature(Unwrap(m.swap_tx_input_sig_ctx.my_partial_sig)))))
    ELSE IF \/ IsNone(m.buyers_warning_tx_buyer_input_sig_ctx.my_partial_sig)
            \/ IsNone(m.buyers_warning_tx_seller_input_sig_ctx.my_partial_sig)
            \/ IsNone(m.buyers_redirect_tx_input_sig_ctx.my_partial_sig)
            \/ IsNone(m.swap_tx_input_adaptor)
         THEN None
         ELSE Some(ExchangedSigs(
                  Unwrap(m.buyers_warning_tx_buyer_input_sig_ctx.my_partial_sig),
                  Unwrap(m.buyers_warning_tx_seller_input_sig_ctx.my_partial_sig),
                  Unwrap(m.buyers_redirect_tx_input_sig_ctx.my_partial_sig),
                  Some(SellersAdaptor(Unwrap(m.swap_tx_input_adaptor)))))

\* set_peer_partial_signatures_on_my_txs with the branches of the roles
\* exchanged: the peer's partial signatures go to the slots of the peer's
\* txs.
TradeModel_set_peer_partial_signatures_on_peer_txs(m, sigs) ==
    IF am_buyer(m.my_role)
    THEN [m EXCEPT
            !.sellers_warning_tx_buyer_input_sig_ctx.peers_partial_sig =
                Some(sigs.peers_warning_tx_buyer_input_partial_signature),
            !.sellers_warning_tx_seller_input_sig_ctx.peers_partial_sig =
                Some(sigs.peers_warning_tx_seller_input_partial_signature),
            !.sellers_redirect_tx_input_sig_ctx.peers_partial_sig =
                Some(sigs.peers_redirect_tx_input_partial_signature)]
    ELSE [m EXCEPT
            !.buyers_warning_tx_buyer_input_sig_ctx.peers_partial_sig =
                Some(sigs.peers_warning_tx_buyer_input_partial_signature),
            !.buyers_warning_tx_seller_input_sig_ctx.peers_partial_sig =
                Some(sigs.peers_warning_tx_seller_input_partial_signature),
            !.buyers_redirect_tx_input_sig_ctx.peers_partial_sig =
                Some(sigs.peers_redirect_tx_input_partial_signature)]

\* set_peer_partial_signatures_on_my_txs that drops the swap-tx input scalar
\* of the received signatures on a seller's model.
TradeModel_set_peer_partial_signatures_on_my_txs_swap_dropped(m, sigs) ==
    IF am_buyer(m.my_role)
    THEN LET m1 == [m EXCEPT
                 !.buyers_warning_tx_buyer_input_sig_ctx.peers_partial_sig =
                     Some(sigs.peers_warning_tx_buyer_input_partial_signature),
                 !.buyers_warning_tx_seller_input_sig_ctx.peers_partial_sig =
                     Some(sigs.peers_warning_tx_seller_input_partial_signature),
                 !.buyers_redirect_tx_input_sig_ctx.peers_partial_sig =
                     Some(sigs.peers_redirect_tx_input_partial_signature)]
         IN IF IsSome(sigs.swap_tx_input_scalar)
               /\ Unwrap(sigs.swap_tx_input_scalar).kind = "SellersAdaptor"
            THEN [m1 EXCEPT !.swap_tx_input_adaptor =
                      Some(Unwrap(sigs.swap_tx_input_scalar).scalar)]
            ELSE m1
    ELSE [m EXCEPT
            !.sellers_warning_tx_buyer_input_sig_ctx.peers_partial_sig =
                Some(sigs.peers_warning_tx_buyer_input_partial_signature),
            !.sellers_warning_tx_seller_input_sig_ctx.peers_partial_sig =
                Some(sigs.peers_warning_tx_seller_input_partial_signature),
            !.sellers_redirect_tx_input_sig_ctx.peers_partial_sig =
                Some(sigs.peers_redirect_tx_input_partial_signature)]

\* set_peer_partial_signatures_on_my_txs that deposits the peer's partial
\* signature for the buyer input of the warning tx in the slot of the seller
\* input, and the other way round.
TradeModel_set_peer_partial_signatures_on_my_txs_crossed(m, sigs) ==
    IF am_buyer(m.my_role)
    THEN [m EXCEPT
            !.buyers_warning_tx_buyer_input_sig_ctx.peers_partial_sig =
                Some(sigs.peers_warning_tx_seller_input_partial_signature),
            !.buyers_warning_tx_seller_input_sig_ctx.peers_partial_sig =
                Some(sigs.peers_warning_tx_buyer_input_partial_signature),
            !.buyers_redirect_tx_input_sig_ctx.peers_partial_sig =
                Some(sigs.peers_redirect_tx_input_partial_signature)]
    ELSE [m EXCEPT
            !.sellers_warning_tx_buyer_input_sig_ctx.peers_partial_sig =
                Some(sigs.peers_warning_tx_seller_input_partial_signature),
            !.sellers_warning_tx_seller_input_sig_ctx.peers_partial_sig =
                Some(sigs.peers_warning_tx_buyer_input_partial_signature),
            !.sellers_redirect_tx_input_sig_ctx.peers_partial_sig =
                Some(sigs.peers_redirect_tx_input_partial_signature)]

\* TradeModel::set_peer_partial_signatures_on_my_txs
TradeModel_set_peer_partial_signatures_on_my_txs(m, sigs) ==
    IF am_buyer(m.my_role)
    THEN LET m1 == [m EXCEPT
                 !.buyers_warning_tx_buyer_input_sig_ctx.peers_partial_sig =
                     Some(sigs.peers_warning_tx_buyer_input_partial_signature),
                 !.buyers_warning_tx_seller_input_sig_ctx.peers_partial_sig =
                     Some(sigs.peers_warning_tx_seller_input_partial_signature),
                 !.buyers_redirect_tx_input_sig_ctx.peers_partial_sig =
                     Some(sigs.peers_redirect_tx_input_partial_signature)]
         IN IF IsSome(sigs.swap_tx_input_scalar)
               /\ Unwrap(sigs.swap_tx_input_scalar).kind = "SellersAdaptor"
            THEN [m1 EXCEPT !.swap_tx_input_adaptor =
                      Some(Unwrap(sigs.swap_tx_input_scalar).scalar)]
            ELSE m1
    ELSE LET m1 == [m EXCEPT
                 !.sellers_warning_tx_buyer_input_sig_ctx.peers_partial_sig =
                     Some(sigs.peers_warning_tx_buyer_input_partial_signature),
                 !.sellers_warning_tx_seller_input_sig_ctx.peers_partial_sig =
                     Some(sigs.peers_warning_tx_seller_input_partial_signature),
                 !.sellers_redirect_tx_input_sig_ctx.peers_partial_sig =
                     Some(sigs.peers_redirect_tx_input_partial_signature)]
         IN IF IsSome(sigs.swap_tx_input_scalar)
               /\ Unwrap(sigs.swap_tx_input_scalar).kind = "BuyersPartialSignature"
            THEN [m1 EXCEPT !.swap_tx_input_sig_ctx.peers_partial_sig =
                      Some(Unwrap(sigs.swap_tx_input_scalar).scalar)]
            ELSE m1

\* The slots of TradeModel::aggregate_partial_signatures, with their key
\* contexts: the party's own warning and redirect txs.
aggregate_partial_signatures_plan(my_role) ==
    IF am_buyer(my_role)
    THEN << <<"buyers_warning_tx_buyer_input_sig_ctx", "buyer_output_key_ctx">>,
            <<"buyers_warning_tx_seller_input_sig_ctx", "seller_output_key_ctx">>,
            <<"buyers_redirect_tx_input_sig_ctx", "buyer_output_key_ctx">> >>
    ELSE << <<"sellers_warning_tx_buyer_input_sig_ctx", "buyer_output_key_ctx">>,
            <<"sellers_warning_tx_seller_input_sig_ctx", "seller_output_key_ctx">>,
            <<"sellers_redirect_tx_input_sig_ctx", "seller_output_key_ctx">> >>

\* TradeModel::aggregate_partial_signatures
TradeModel_aggregate_partial_signatures(m) ==
    ForEachSigCtx("aggregate_partial_signatures", m,
                  aggregate_partial_signatures_plan(m.my_role), <<>>)

\* TradeModel::set_swap_tx_input_peers_partial_signature
TradeModel_set_swap_tx_input_peers_partial_signature(m, sig) ==
    Result([m EXCEPT !.swap_tx_input_sig_ctx.peers_partial_sig = Some(sig)], "Ok", <<>>)

\* my_key_ctx of TradeModel::aggregate_swap_tx_partial_signatures: the key
\* context of the party's own output.
my_key_ctx(my_role) ==
    IF am_buyer(my_role) THEN "buyer_output_key_ctx" ELSE "seller_output_key_ctx"

\* The key context TradeModel::aggregate_swap_tx_partial_signatures hands to
\* the swap-tx slot.
aggregate_swap_tx_partial_signatures_plan(my_role) ==
    << <<"swap_tx_input_sig_ctx", my_key_ctx(my_role)>> >>

\* TradeModel::aggregate_swap_tx_partial_signatures
TradeModel_aggregate_swap_tx_partial_signatures(m) ==
    ForEachSigCtx("aggregate_partial_signatures", m,
                  aggregate_swap_tx_partial_signatures_plan(m.my_role), <<>>)

\* A faulty choice of key context, that of the party's own output, against
\* which the release of the private key share is checked.
peer_key_ctx_own_output(my_role) ==
    IF am_buyer(my_role) THEN "buyer_output_key_ctx" ELSE "seller_output_key_ctx"

\* The key context whose private key share
\* TradeModel::get_my_private_key_share_for_peer_output reads.
peer_key_ctx(my_role) ==
    IF am_buyer(my_role) THEN "seller_output_key_ctx" ELSE "buyer_output_key_ctx"

\* TradeModel::get_my_private_key_share_for_peer_output: a reference to the
\* private key of the own key share in the peer's output key context, given
\* here as the key context read and the scalar found there.
TradeModel_get_my_private_key_share_for_peer_output(m) ==
    IF IsNone(m[peer_key_ctx(m.my_role)].my_key_share) THEN None
    ELSE Some([key_ctx |-> peer_key_ctx(m.my_role),
               prv_key |-> Unwrap(m[peer_key_ctx(m.my_role)].my_key_share).prv_key])

\* TradeModel::set_peer_private_key_share_for_my_output: not implemented,
\* the scalar is ignored.
TradeModel_set_peer_private_key_share_for_my_output(m, prv_key_share) ==
    Result(m, "Ok", <<>>)

(***************************************************************************)
(* The wire: a request or response field is a byte string, which either    *)
(* decodes to a value or is malformed.                                     *)
(***************************************************************************)
\* serialize().into(): the bytes that decode to v.
Serialize(v) == [valid |-> TRUE, val |-> v]

\* Bytes that decode to nothing (v only gives them a shape).
Malformed(v) == [valid |-> FALSE, val |-> v]

\* MyTryInto<Point>, MyTryInto<PubNonce>, MyTryInto<MaybeScalar> for bytes.
my_try_into(bytes, what) ==
    IF bytes.valid THEN [ok |-> TRUE, val |-> bytes.val, message |-> ""]
    ELSE [ok |-> FALSE, val |-> bytes.val, message |-> what]

\* MyTryInto<Scalar> for bytes: a Scalar is never zero.
my_try_into_Scalar(bytes) ==
    IF bytes.valid /\ bytes.val # 0 THEN [ok |-> TRUE, val |-> bytes.val, message |-> ""]
    ELSE [ok |-> FALSE, val |-> bytes.val, message |-> "could not decode scalar"]

\* MyTryInto<Role> for i32: an enum value the service knows, or not.
my_try_into_Role(my_role) ==
    IF my_role.known THEN [ok |-> TRUE, val |-> my_role.role, message |-> ""]
    ELSE [ok |-> FALSE, val |-> my_role.role, message |-> "unknown enum value"]

\* From<SwapTxInputScalar<ByRef>> for the wire's SwapTxInputScalar.
SwapTxInputScalar_into(value) ==
    IF value.kind = "BuyersPartialSignature"
    THEN [kind |-> "SwapTxInputBuyersPartialSignature", bytes |-> Serialize(value.scalar)]
    ELSE [kind |-> "SwapTxInputSellersAdaptor", bytes |-> Serialize(value.scalar)]

\* MyTryInto<SwapTxInputScalar<ByVal>> for the wire's SwapTxInputScalar.
SwapTxInputScalar_my_try_into(wire) ==
    LET d == my_try_into(wire.bytes, "could not decode scalar")
    IN IF ~d.ok THEN [ok |-> FALSE, val |-> None, message |-> d.message]
       ELSE IF wire.kind = "SwapTxInputBuyersPartialSignature"
            THEN [ok |-> TRUE, val |-> Some(BuyersPartialSignature(d.val)), message |-> ""]
            ELSE [ok |-> TRUE, val |-> Some(SellersAdaptor(d.val)), message |-> ""]

(***************************************************************************)
(* The MuSig handlers, from the point where the handler holds the trade's  *)
(* mutex to its return: the model after the call, the status code and      *)
(* message, the response, the SigCtx calls made and the private key share  *)
(* looked up for the response.                                             *)
(***************************************************************************)
Reply(m, code, message, response, calls, prv_key_share) ==
    [m |-> m, code |-> code, message |-> message, response |-> response,
     calls |-> calls, prv_key_share |-> prv_key_share]

Failed(m, code, message, calls) == Reply(m, code, message, None, calls, None)

\* A ProtocolErrorKind (`?' on a Result of the core) becomes
\* Status::internal; a panic is no status at all.
Internal(r, calls) ==
    Failed(r.m, IF r.res = "Panic" THEN "panic" ELSE "internal", r.res, calls)

\* MyMuSig::get_nonce_shares, after init_my_nonce_shares (r3): the trade
\* parameters are stored and the own nonce shares returned.
get_nonce_shares_response(request, calls, r3) ==
    IF r3.res # "Ok" THEN Internal(r3, calls \o r3.calls)
    ELSE LET m4 == [r3.m EXCEPT
                      !.trade_amount = Some(request.trade_amount),
                      !.buyers_security_deposit = Some(request.buyers_security_deposit),
                      !.sellers_security_deposit = Some(request.sellers_security_deposit),
                      !.deposit_tx_fee_rate = Some(request.deposit_tx_fee_rate),
                      !.prepared_tx_fee_rate = Some(request.prepared_tx_fee_rate)]
             my_nonce_shares == TradeModel_get_my_nonce_shares(m4)
         IN IF IsNone(my_nonce_shares)
            THEN Failed(m4, "internal", "missing nonce shares", calls \o r3.calls)
            ELSE Reply(m4, "ok", "",
                       Some([warning_tx_fee_bump_address |-> "address1",
                             redirect_tx_fee_bump_address |-> "address2",
                             nonce_shares |-> [slot \in Slots |->
                                 Serialize(Unwrap(my_nonce_shares)[slot])]]),
                       calls \o r3.calls, None)

\* MyMuSig::get_nonce_shares, after aggregate_key_shares (r2).
get_nonce_shares_init_my_nonce_shares(request, r2) ==
    IF r2.res # "Ok" THEN Internal(r2, r2.calls)
    ELSE get_nonce_shares_response(request, r2.calls, TradeModel_init_my_nonce_shares(r2.m))

\* get_nonce_shares that stores each key share as soon as it is decoded.
MyMuSig_get_nonce_shares_decode_late(m, request) ==
    LET b == my_try_into(request.buyer_output_peers_pub_key_share, "could not decode point")
        s == my_try_into(request.seller_output_peers_pub_key_share, "could not decode point")
    IN IF ~b.ok THEN Failed(m, "invalid_argument", b.message, <<>>)
       ELSE IF ~s.ok
            THEN Failed([m EXCEPT !.buyer_output_key_ctx.peers_key_share = Some(b.val)],
                        "invalid_argument", s.message, <<>>)
       ELSE get_nonce_shares_init_my_nonce_shares(request,
                TradeModel_aggregate_key_shares(
                    TradeModel_set_peer_key_shares(m, b.val, s.val)))

\* MyMuSig::get_nonce_shares
MyMuSig_get_nonce_shares(m, request) ==
    LET b == my_try_into(request.buyer_output_peers_pub_key_share, "could not decode point")
        s == my_try_into(request.seller_output_peers_pub_key_share, "could not decode point")
    IN IF ~b.ok THEN Failed(m, "invalid_argument", b.message, <<>>)
       ELSE IF ~s.ok THEN Failed(m, "invalid_argument", s.message, <<>>)
       ELSE get_nonce_shares_init_my_nonce_shares(request,
                TradeModel_aggregate_key_shares(
                    TradeModel_set_peer_key_shares(m, b.val, s.val)))

\* MyMuSig::get_partial_signatures, after sign_partial (r3): the own partial
\* signatures on the peer's txs, and the swap-tx scalar, are returned.
get_partial_signatures_response(calls, r3) ==
    IF r3.res # "Ok" THEN Internal(r3, calls \o r3.calls)
    ELSE LET sigs == TradeModel_get_my_partial_signatures_on_peer_txs(r3.m)
         IN IF IsNone(sigs)
            THEN Failed(r3.m, "internal", "missing partial signatures", calls \o r3.calls)
            ELSE Reply(r3.m, "ok", "",
                       Some([peers_warning_tx_buyer_input_partial_signature |->
                                 Serialize(Unwrap(sigs).peers_warning_tx_buyer_input_partial_signature),
                             peers_warning_tx_seller_input_partial_signature |->
                                 Serialize(Unwrap(sigs).peers_warning_tx_seller_input_partial_signature),
                             peers_redirect_tx_input_partial_signature |->
                                 Serialize(Unwrap(sigs).peers_redirect_tx_input_partial_signature),
                             swap_tx_input_scalar |->
                                 IF IsNone(Unwrap(sigs).swap_tx_input_scalar) THEN None
                                 ELSE Some(SwapTxInputScalar_into(
                                          Unwrap(Unwrap(sigs).swap_tx_input_scalar)))]),
                       calls \o r3.calls, None)

\* MyMuSig::get_partial_signatures, after aggregate_nonce_shares (r2).
get_partial_signatures_sign_partial(r2) ==
    IF r2.res # "Ok" THEN Internal(r2, r2.calls)
    ELSE get_partial_signatures_response(r2.calls, TradeModel_sign_partial(r2.m))

\* MyMuSig::get_partial_signatures
MyMuSig_get_partial_signatures(m, request) ==
    IF IsNone(request.peers_nonce_shares)
    THEN Failed(m, "not_found", "missing request.peers_nonce_shares", <<>>)
    ELSE
    LET wire == Unwrap(request.peers_nonce_shares)
        d == [slot \in Slots |-> my_try_into(wire[slot], "could not decode pub nonce")]
    IN IF \E slot \in Slots : ~d[slot].ok
       THEN Failed(m, "invalid_argument", "could not decode pub nonce", <<>>)
       ELSE get_partial_signatures_sign_partial(
                TradeModel_aggregate_nonce_shares(
                    TradeModel_set_peer_nonce_shares(m, [slot \in Slots |-> d[slot].val])))

\* MyMuSig::sign_deposit_tx, after aggregate_partial_signatures (r2).
sign_deposit_tx_response(r2) ==
    IF r2.res # "Ok" THEN Internal(r2, r2.calls)
    ELSE Reply(r2.m, "ok", "", Some([deposit_psbt |-> "deposit_psbt"]), r2.calls, None)

\* MyMuSig::sign_deposit_tx
MyMuSig_sign_deposit_tx(m, request) ==
    IF IsNone(request.peers_partial_signatures)
    THEN Failed(m, "not_found", "missing request.peers_partial_signatures", <<>>)
    ELSE
    LET wire == Unwrap(request.peers_partial_signatures)
        b == my_try_into(wire.peers_warning_tx_buyer_input_partial_signature,
                         "could not decode scalar")
        s == my_try_into(wire.peers_warning_tx_seller_input_partial_signature,
                         "could not decode scalar")
        r == my_try_into(wire.peers_redirect_tx_input_partial_signature,
                         "could not decode scalar")
        x == IF IsNone(wire.swap_tx_input_scalar)
             THEN [ok |-> TRUE, val |-> None, message |-> ""]
             ELSE SwapTxInputScalar_my_try_into(Unwrap(wire.swap_tx_input_scalar))
    IN IF ~b.ok \/ ~s.ok \/ ~r.ok \/ ~x.ok
       THEN Failed(m, "invalid_argument", "could not decode scalar", <<>>)
       ELSE sign_deposit_tx_response(
                TradeModel_aggregate_partial_signatures(
                    TradeModel_set_peer_partial_signatures_on_my_txs(m,
                        ExchangedSigs(b.val, s.val, r.val, x.val))))

\* MyMuSig::publish_deposit_tx: one confirmation event, whatever the state
\* of the trade.
MyMuSig_publish_deposit_tx(m) ==
    Reply(m, "ok", "",
          Some([tx |-> "signed_deposit_tx", current_block_height |-> 900001,
                num_confirmations |-> 1]),
          <<>>, None)

\* MyMuSig::sign_swap_tx, after aggregate_swap_tx_partial_signatures (r2):
\* the private key share for the peer's output is returned.
sign_swap_tx_response(r2) ==
    IF r2.res # "Ok" THEN Internal(r2, r2.calls)
    ELSE LET prv_key_share == TradeModel_get_my_private_key_share_for_peer_output(r2.m)
         IN IF IsNone(prv_key_share)
            THEN Failed(r2.m, "internal", "missing private key share", r2.calls)
            ELSE Reply(r2.m, "ok", "",
                       Some([swap_tx |-> "signed_swap_tx",
                             peer_output_prv_key_share |->
                                 Serialize(Unwrap(prv_key_share).prv_key)]),
                       r2.calls, prv_key_share)

\* MyMuSig::sign_swap_tx, after set_swap_tx_input_peers_partial_signature (r1).
sign_swap_tx_aggregate(r1) ==
    IF r1.res # "Ok" THEN Internal(r1, r1.calls)
    ELSE sign_swap_tx_response(TradeModel_aggregate_swap_tx_partial_signatures(r1.m))

\* MyMuSig::sign_swap_tx
MyMuSig_sign_swap_tx(m, request) ==
    LET d == my_try_into(request.swap_tx_input_peers_partial_signature,
                         "could not decode scalar")
    IN IF ~d.ok THEN Failed(m, "invalid_argument", d.message, <<>>)
       ELSE sign_swap_tx_aggregate(
                TradeModel_set_swap_tx_input_peers_partial_signature(m, d.val))

\* MyMuSig::close_trade, after the peer's private key share, when the
\* request holds one, was handed to the model (r1): the private key share
\* for the peer's output is returned.
close_trade_response(r1) ==
    IF r1.res # "Ok" THEN Internal(r1, r1.calls)
    ELSE LET my_prv_key_share == TradeModel_get_my_private_key_share_for_peer_output(r1.m)
         IN IF IsNone(my_prv_key_share)
            THEN Failed(r1.m, "internal", "missing private key share", r1.calls)
            ELSE Reply(r1.m, "ok", "",
                       Some([peer_output_prv_key_share |->
                                 Serialize(Unwrap(my_prv_key_share).prv_key)]),
                       r1.calls, my_prv_key_share)

\* MyMuSig::close_trade
MyMuSig_close_trade(m, request) ==
    LET d == IF IsNone(request.my_output_peers_prv_key_share)
             THEN [ok |-> TRUE, val |-> 0, message |-> ""]
             ELSE my_try_into_Scalar(Unwrap(request.my_output_peers_prv_key_share))
    IN IF ~d.ok THEN Failed(m, "invalid_argument", d.message, <<>>)
       ELSE close_trade_response(
                IF IsSome(request.my_output_peers_prv_key_share)
                THEN TradeModel_set_peer_private_key_share_for_my_output(m, d.val)
                ELSE Result(m, "Ok", <<>>))

\* init_trade that stores the model as TradeModel::new made it, without
\* the call of init_my_key_shares.
MyMuSig_init_trade_without_key_shares(request) ==
    LET d == my_try_into_Role(request.my_role)
    IN IF ~d.ok THEN Failed(None, "out_of_range", d.message, <<>>)
       ELSE Reply(Some(TradeModel_new(request.trade_id, d.val)), "ok", "", None, <<>>, None)

\* MyMuSig::init_trade, up to the call of add_trade_model.
MyMuSig_init_trade(request) ==
    LET d == my_try_into_Role(request.my_role)
    IN IF ~d.ok THEN Failed(None, "out_of_range", d.message, <<>>)
       ELSE
       LET trade_model == TradeModel_init_my_key_shares(TradeModel_new(request.trade_id, d.val))
           my_key_shares == TradeModel_get_my_key_shares(trade_model)
       IN IF IsNone(my_key_shares)
          THEN Failed(None, "internal", "missing key shares", <<>>)
          ELSE Reply(Some(trade_model), "ok", "",
                     Some([buyer_output_pub_key_share |->
                               Serialize(Unwrap(my_key_shares)[1].pub_key),
                           seller_output_pub_key_share |->
                               Serialize(Unwrap(my_key_shares)[2].pub_key),
                           current_block_height |-> 900000]),
                     <<>>, None)

(***************************************************************************)
(* TRADE_MODELS: the store maps a trade id to a shared handle              *)
(* (Arc<Mutex<TradeModel>>); the heap holds the model behind each handle.  *)
(***************************************************************************)
TradeIds == {"t1", "t2"}

\* Handles that can be allocated at one time.
MaxHandles == 3

Handles == 1..MaxHandles

\* get_trade_model that returns a handle the store holds, whatever the id
\* it is held under.
get_trade_model_of_any_id(trade_id) ==
    IF \E id \in TradeIds : IsSome(store[id])
    THEN store[CHOOSE id \in TradeIds : IsSome(store[id])]
    ELSE None

\* TradeModelStore::get_trade_model
get_trade_model(trade_id) == store[trade_id]

\* The model behind the handle the store holds for trade_id.
StoredModel(trade_id) == Unwrap(heap[Unwrap(store[trade_id])])

HasTrade(trade_id) == IsSome(store[trade_id])

\* The heap once the handle the store held for trade_id is dropped by the
\* store: the model is freed, the store having been its only owner.
DropStored(trade_id) ==
    IF IsSome(store[trade_id]) THEN [heap EXCEPT ![Unwrap(store[trade_id])] = None] ELSE heap

\* Arc::new: a handle that is free.
FreeHandle(hp) == CHOOSE h \in Handles : IsNone(hp[h]) /\ \A g \in Handles : IsNone(hp[g]) => h <= g

\* add_trade_model with try_insert in place of insert: an entry the store
\* holds is kept.
add_trade_model_try_insert(trade_model) ==
    IF IsSome(store[trade_model.trade_id]) THEN UNCHANGED <<store, heap>>
    ELSE LET h == FreeHandle(heap)
         IN /\ {g \in Handles : IsNone(heap[g])} # {}
            /\ heap' = [heap EXCEPT ![h] = Some(trade_model)]
            /\ store' = [store EXCEPT ![trade_model.trade_id] = Some(h)]

\* TradeModelStore::add_trade_model: insert under the model's trade id,
\* replacing (and dropping) what the store held under that id.
add_trade_model(trade_model) ==
    LET hp == DropStored(trade_model.trade_id)
        h == FreeHandle(hp)
    IN /\ {g \in Handles : IsNone(hp[g])} # {}
       /\ heap' = [hp EXCEPT ![h] = Some(trade_model)]
       /\ store' = [store EXCEPT ![trade_model.trade_id] = Some(h)]

(***************************************************************************)
(* The outcome of the last call, as its caller sees it, and whether the    *)
(* store held the trade when the call was made.                            *)
(***************************************************************************)
Outcome(op, request, reply) ==
    [op |-> op, trade_id |-> request.trade_id, request |-> request,
     code |-> reply.code, message |-> reply.message,
     response |-> reply.response, calls |-> reply.calls,
     prv_key_share |-> reply.prv_key_share,
     found |-> request.trade_id \in TradeIds /\ HasTrade(request.trade_id)]

NotFound(op, request) ==
    Outcome(op, request, Failed(None, "not_found", "missing trade with id", <<>>))

NoCall == Outcome("none", [trade_id |-> ""], Failed(None, "ok", "", <<>>))

\* A handler that makes the trade when the store does not hold it
\* (entry().or_insert_with() in place of get()).
OnTrade_or_insert(op, request, reply) ==
    IF IsNone(get_trade_model(request.trade_id))
    THEN /\ last' = Outcome(op, request, reply)
         /\ add_trade_model(reply.m)
    ELSE /\ last' = Outcome(op, request, reply)
         /\ heap' = [heap EXCEPT ![Unwrap(get_trade_model(request.trade_id))] = Some(reply.m)]
         /\ UNCHANGED store

\* A handler that looks the trade up, locks its model and runs to its
\* return while it holds the lock.
OnTrade(op, request, reply) ==
    IF IsNone(get_trade_model(request.trade_id))
    THEN /\ last' = NotFound(op, request)
         /\ UNCHANGED <<store, heap>>
    ELSE /\ last' = Outcome(op, request, reply)
         /\ heap' = [heap EXCEPT ![Unwrap(get_trade_model(request.trade_id))] = Some(reply.m)]
         /\ UNCHANGED store

\* The model a handler works on (a fresh one when the trade is missing and
\* the handler returns not_found before it reads any).
ModelOf(trade_id) ==
    IF HasTrade(trade_id) THEN StoredModel(trade_id)
    ELSE TradeModel_new(trade_id, "SellerAsMaker")

(***************************************************************************)
(* What the RPC client (the peer's messages pass through it) may send.     *)
(***************************************************************************)
\* The key share of a peer that runs this service.
PeerKeyShare == KeyPair_new.pub_key

WireRoles == {[known |-> TRUE, role |-> r] : r \in Roles}
             \cup {[known |-> FALSE, role |-> "SellerAsMaker"]}

WirePoints == {Serialize(p) : p \in Points} \cup {Malformed(PeerKeyShare)}

\* A public nonce of a peer that derives its nonces as this service does,
\* from its seed and the aggregated key of two such peers.
PeerNonce(seed) ==
    public_nonce(SecNonceBuilder_build(seed,
        aggregated_pubkey(KeyAggContext_new(<<PeerKeyShare, PeerKeyShare>>))))

WireNonceShares ==
    {None}
    \cup {Some([slot \in Slots |-> Serialize(PeerNonce(seed))]) : seed \in 0..MaxSeed}
    \cup {Some([slot \in Slots |-> IF slot = "sellers_redirect_tx_input_sig_ctx"
                                   THEN Malformed(PeerNonce(NonceSeed))
                                   ELSE Serialize(PeerNonce(NonceSeed))])}

\* The key context under which the peer, running TradeModel::sign_partial,
\* signs for a slot.
PeerSigningKeyCtx(slot) ==
    LET i == CHOOSE j \in 1..Len(sign_partial_plan) : sign_partial_plan[j][1] = slot
    IN sign_partial_plan[i][2]

\* A scalar that is no partial signature of the trade.
JunkPartialSignature ==
    PartialSigOf(KeyAggContext_new(<<PeerKeyShare, PeerKeyShare>>), PeerKeyShare,
                 PeerNonce(NonceSeed),
                 AggNonce_sum(<<PeerNonce(NonceSeed), PeerNonce(NonceSeed)>>), "junk")

\* The peer's partial signature for a slot of model m: the one that
\* verifies with the key shares and nonces m holds, when m holds them.
PeerPartialSignature(m, slot, choice) ==
    LET key_ctx == m[PeerSigningKeyCtx(slot)]
    IN IF /\ choice = "valid"
          /\ IsSome(key_ctx.key_agg_ctx) /\ IsSome(key_ctx.peers_key_share)
          /\ IsSome(m[slot].peers_nonce_share) /\ IsSome(m[slot].aggregated_nonce)
       THEN PartialSigOf(Unwrap(key_ctx.key_agg_ctx), Unwrap(key_ctx.peers_key_share),
                         Unwrap(m[slot].peers_nonce_share),
                         Unwrap(m[slot].aggregated_nonce), Message(slot))
       ELSE JunkPartialSignature

WireSig(m, slot, choice) ==
    IF choice = "malformed" THEN Malformed(JunkPartialSignature)
    ELSE Serialize(PeerPartialSignature(m, slot, choice))

\* The slots of the party's own warning and redirect txs.
MyBuyerInputSlot(m) ==
    IF am_buyer(m.my_role) THEN "buyers_warning_tx_buyer_input_sig_ctx"
    ELSE "sellers_warning_tx_buyer_input_sig_ctx"
MySellerInputSlot(m) ==
    IF am_buyer(m.my_role) THEN "buyers_warning_tx_seller_input_sig_ctx"
    ELSE "sellers_warning_tx_seller_input_sig_ctx"
MyRedirectSlot(m) ==
    IF am_buyer(m.my_role) THEN "buyers_redirect_tx_input_sig_ctx"
    ELSE "sellers_redirect_tx_input_sig_ctx"

WireSwapTxInputScalar(m, choice) ==
    CASE choice = "absent" -> None
      [] choice = "partial" ->
           Some([kind |-> "SwapTxInputBuyersPartialSignature",
                 bytes |-> Serialize(PeerPartialSignature(m, "swap_tx_input_sig_ctx", "valid"))])
      [] choice = "adaptor" ->
           Some([kind |-> "SwapTxInputSellersAdaptor",
                 bytes |-> Serialize(AdaptorOf(ScalarOne,
                               PeerPartialSignature(m, "swap_tx_input_sig_ctx", "valid")))])
      [] choice = "malformed" ->
           Some([kind |-> "SwapTxInputBuyersPartialSignature",
                 bytes |-> Malformed(JunkPartialSignature)])

SigChoices == {"valid", "junk"}

PartialSignaturesChoices ==
    {<<"none", "absent">>, <<"malformed", "absent">>, <<"valid", "malformed">>}
    \cup (SigChoices \X {"absent", "partial", "adaptor"})

WirePartialSignatures(m, choice) ==
    IF choice[1] = "none" THEN None
    ELSE Some([peers_warning_tx_buyer_input_partial_signature |->
                   WireSig(m, MyBuyerInputSlot(m), choice[1]),
               peers_warning_tx_seller_input_partial_signature |->
                   WireSig(m, MySellerInputSlot(m), choice[1]),
               peers_redirect_tx_input_partial_signature |->
                   WireSig(m, MyRedirectSlot(m), choice[1]),
               swap_tx_input_scalar |-> WireSwapTxInputScalar(m, choice[2])])

WirePrvKeyShares ==
    {None, Some(Malformed(ScalarOne))} \cup {Some(Serialize(x)) : x \in 0..MaxScalar}

\* The monetary parameters of a request.
Amounts == {100}

(***************************************************************************)
(* The MuSig service: each call runs from its request to its reply.        *)
(***************************************************************************)
init_trade(request) ==
    LET reply == MyMuSig_init_trade(request)
    IN /\ last' = Outcome("init_trade", request, reply)
       /\ IF reply.code = "ok"
          THEN add_trade_model(Unwrap(reply.m))
          ELSE UNCHANGED <<store, heap>>

get_nonce_shares(request) ==
    OnTrade("get_nonce_shares", request,
            MyMuSig_get_nonce_shares(ModelOf(request.trade_id), request))

get_partial_signatures(request) ==
    OnTrade("get_partial_signatures", request,
            MyMuSig_get_partial_signatures(ModelOf(request.trade_id), request))

sign_deposit_tx(request) ==
    OnTrade("sign_deposit_tx", request,
            MyMuSig_sign_deposit_tx(ModelOf(request.trade_id), request))

publish_deposit_tx(request) ==
    OnTrade("publish_deposit_tx", request,
            MyMuSig_publish_deposit_tx(ModelOf(request.trade_id)))

sign_swap_tx(request) ==
    OnTrade("sign_swap_tx", request,
            MyMuSig_sign_swap_tx(ModelOf(request.trade_id), request))

close_trade(request) ==
    OnTrade("close_trade", request,
            MyMuSig_close_trade(ModelOf(request.trade_id), request))

\* The trade ids the client uses.
ServedTradeIds == {"t1"}

\* The RPCs whose responses a client hands on to the peer's service.
RelayedCalls ==
    {"init_trade", "get_nonce_shares", "get_partial_signatures", "sign_deposit_tx",
     "sign_swap_tx"}

\* No response was received yet.
NoReplies == [trade_id \in TradeIds |-> [op \in RelayedCalls |-> None]]

\* Handlers that run at one time (the worker threads that poll them).
MaxThreads == 2

Threads == 1..MaxThreads

\* A thread that runs no handler.
IdleTask ==
    [pc |-> "idle", op |-> "none", request |-> [trade_id |-> ""], trade_model |-> None,
     entered |-> None]

\* Calls that run one at a time, each from its request to its reply: no
\* handler is in flight and no mutex held between them.
Sequential ==
    /\ replies = NoReplies
    /\ tasks = [t \in Threads |-> IdleTask]
    /\ store_mutex = None
    /\ trade_mutex = [h \in Handles |-> None]

\* One more call is made, while the run may make one.
Called ==
    /\ ncalls < MaxCalls
    /\ ncalls' = ncalls + 1
    /\ UNCHANGED <<replies, tasks, store_mutex, trade_mutex>>

InitTrade ==
    /\ Called
    /\ \E trade_id \in ServedTradeIds, my_role \in WireRoles :
           init_trade([trade_id |-> trade_id, my_role |-> my_role])

GetNonceShares ==
    /\ Called
    /\ \E trade_id \in ServedTradeIds, b \in WirePoints, s \in WirePoints, amount \in Amounts :
           get_nonce_shares([trade_id |-> trade_id,
                             buyer_output_peers_pub_key_share |-> b,
                             seller_output_peers_pub_key_share |-> s,
                             trade_amount |-> amount,
                             buyers_security_deposit |-> amount,
                             sellers_security_deposit |-> amount,
                             deposit_tx_fee_rate |-> amount,
                             prepared_tx_fee_rate |-> amount])

GetPartialSignatures ==
    /\ Called
    /\ \E trade_id \in ServedTradeIds, nonces \in WireNonceShares :
           get_partial_signatures([trade_id |-> trade_id, peers_nonce_shares |-> nonces])

SignDepositTx ==
    /\ Called
    /\ \E trade_id \in ServedTradeIds, choice \in PartialSignaturesChoices :
           sign_deposit_tx([trade_id |-> trade_id,
                            peers_partial_signatures |->
                                WirePartialSignatures(ModelOf(trade_id), choice)])

PublishDepositTx ==
    /\ Called
    /\ \E trade_id \in ServedTradeIds : publish_deposit_tx([trade_id |-> trade_id])

SignSwapTx ==
    /\ Called
    /\ \E trade_id \in ServedTradeIds, choice \in SigChoices \cup {"malformed"} :
           sign_swap_tx([trade_id |-> trade_id,
                         swap_tx_input_peers_partial_signature |->
                             WireSig(ModelOf(trade_id), "swap_tx_input_sig_ctx", choice)])

CloseTrade ==
    /\ Called
    /\ \E trade_id \in ServedTradeIds, share \in WirePrvKeyShares :
           close_trade([trade_id |-> trade_id, my_output_peers_prv_key_share |-> share])

Init ==
    /\ store = [trade_id \in TradeIds |-> None]
    /\ heap = [h \in Handles |-> None]
    /\ last = NoCall
    /\ ncalls = 0
    /\ Sequential

Next ==
    \/ InitTrade
    \/ GetNonceShares
    \/ GetPartialSignatures
    \/ SignDepositTx
    \/ PublishDepositTx
    \/ SignSwapTx
    \/ CloseTrade

Spec == Init /\ [][Next]_vars

(***************************************************************************)
(* The service with several trades in its store: calls for any trade id,   *)
(* with what an honest peer sends, or with bytes that do not decode.       *)
(***************************************************************************)
\* Key shares on the wire: the peer's, or bytes that are no point.
StorePoints == {Serialize(PeerKeyShare), Malformed(PeerKeyShare)}

\* Partial signatures on the wire: the peer's, with its swap-tx scalar or
\* without, or bytes that are no scalar.
StorePartialSignatures ==
    {<<"valid", "absent">>, <<"valid", "partial">>, <<"malformed", "absent">>,
     <<"valid", "malformed">>}

StoreInitTrade ==
    /\ Called
    /\ \E trade_id \in TradeIds, my_role \in WireRoles :
           init_trade([trade_id |-> trade_id, my_role |-> my_role])

StoreGetNonceShares ==
    /\ Called
    /\ \E trade_id \in TradeIds, b \in StorePoints, s \in StorePoints, amount \in Amounts :
           get_nonce_shares([trade_id |-> trade_id,
                             buyer_output_peers_pub_key_share |-> b,
                             seller_output_peers_pub_key_share |-> s,
                             trade_amount |-> amount,
                             buyers_security_deposit |-> amount,
                             sellers_security_deposit |-> amount,
                             deposit_tx_fee_rate |-> amount,
                             prepared_tx_fee_rate |-> amount])

StoreGetPartialSignatures ==
    /\ Called
    /\ \E trade_id \in TradeIds, nonces \in WireNonceShares :
           get_partial_signatures([trade_id |-> trade_id, peers_nonce_shares |-> nonces])

StoreSignDepositTx ==
    /\ Called
    /\ \E trade_id \in TradeIds, choice \in StorePartialSignatures :
           sign_deposit_tx([trade_id |-> trade_id,
                            peers_partial_signatures |->
                                WirePartialSignatures(ModelOf(trade_id), choice)])

StorePublishDepositTx ==
    /\ Called
    /\ \E trade_id \in TradeIds : publish_deposit_tx([trade_id |-> trade_id])

StoreSignSwapTx ==
    /\ Called
    /\ \E trade_id \in TradeIds, choice \in {"valid", "malformed"} :
           sign_swap_tx([trade_id |-> trade_id,
                         swap_tx_input_peers_partial_signature |->
                             WireSig(ModelOf(trade_id), "swap_tx_input_sig_ctx", choice)])

StoreCloseTrade ==
    /\ Called
    /\ \E trade_id \in TradeIds,
          share \in {None, Some(Malformed(ScalarOne)), Some(Serialize(ScalarOne))} :
           close_trade([trade_id |-> trade_id, my_output_peers_prv_key_share |-> share])

NextStore ==
    \/ StoreInitTrade
    \/ StoreGetNonceShares
    \/ StoreGetPartialSignatures
    \/ StoreSignDepositTx
    \/ StorePublishDepositTx
    \/ StoreSignSwapTx
    \/ StoreCloseTrade

SpecStore == Init /\ [][NextStore]_vars

(***************************************************************************)
(* A trade between two honest parties.  Each party's client calls its      *)
(* service round by round and hands the responses to the peer's client,    *)
(* which sends them on in its next request.  A service keeps its trades    *)
(* apart, so the two parties' trades are kept here as two trades of one    *)
(* store: the buyer's under BuyersTrade, the seller's under SellersTrade.  *)
(***************************************************************************)
BuyersTrade == "t1"

SellersTrade == "t2"

PeersTrade(trade_id) == IF trade_id = BuyersTrade THEN SellersTrade ELSE BuyersTrade

\* The roles a party may take in its init_trade.
TradeRoles(trade_id) ==
    IF trade_id = BuyersTrade THEN {"BuyerAsMaker", "BuyerAsTaker"}
    ELSE {"SellerAsMaker", "SellerAsTaker"}

\* The client of a party has the response of its call `before', has the
\* peer's response to `needs', and has not yet made the call `op'.
Ready(trade_id, before, needs, op) ==
    /\ IsSome(replies[trade_id][before])
    /\ IsSome(replies[PeersTrade(trade_id)][needs])
    /\ IsNone(replies[trade_id][op])

\* The call is made, and its response kept for the peer.
Relayed(trade_id, op) ==
    /\ ncalls' = ncalls + 1
    /\ replies' = [replies EXCEPT ![trade_id][op] = last'.response]
    /\ UNCHANGED <<tasks, store_mutex, trade_mutex>>

TradeInitTrade ==
    \E trade_id \in TradeIds : \E my_role \in TradeRoles(trade_id) :
        /\ IsNone(replies[trade_id]["init_trade"])
        /\ init_trade([trade_id |-> trade_id,
                       my_role |-> [known |-> TRUE, role |-> my_role]])
        /\ Relayed(trade_id, "init_trade")

TradeGetNonceShares ==
    \E trade_id \in TradeIds, amount \in Amounts :
        /\ Ready(trade_id, "init_trade", "init_trade", "get_nonce_shares")
        /\ get_nonce_shares(
               [trade_id |-> trade_id,
                buyer_output_peers_pub_key_share |->
                    Unwrap(replies[PeersTrade(trade_id)]["init_trade"]).buyer_output_pub_key_share,
                seller_output_peers_pub_key_share |->
                    Unwrap(replies[PeersTrade(trade_id)]["init_trade"]).seller_output_pub_key_share,
                trade_amount |-> amount,
                buyers_security_deposit |-> amount,
                sellers_security_deposit |-> amount,
                deposit_tx_fee_rate |-> amount,
                prepared_tx_fee_rate |-> amount])
        /\ Relayed(trade_id, "get_nonce_shares")

TradeGetPartialSignatures ==
    \E trade_id \in TradeIds :
        /\ Ready(trade_id, "get_nonce_shares", "get_nonce_shares", "get_partial_signatures")
        /\ get_partial_signatures(
               [trade_id |-> trade_id,
                peers_nonce_shares |->
                    Some(Unwrap(replies[PeersTrade(trade_id)]["get_nonce_shares"]).nonce_shares)])
        /\ Relayed(trade_id, "get_partial_signatures")

TradeSignDepositTx ==
    \E trade_id \in TradeIds :
        /\ Ready(trade_id, "get_partial_signatures", "get_partial_signatures",
                 "sign_deposit_tx")
        /\ sign_deposit_tx(
               [trade_id |-> trade_id,
                peers_partial_signatures |->
                    replies[PeersTrade(trade_id)]["get_partial_signatures"]])
        /\ Relayed(trade_id, "sign_deposit_tx")

\* The seller's sign_swap_tx, with the buyer's partial signature on the swap
\* tx as the buyer's get_partial_signatures returned it.
TradeSignSwapTx ==
    /\ Ready(SellersTrade, "sign_deposit_tx", "get_partial_signatures", "sign_swap_tx")
    /\ sign_swap_tx(
           [trade_id |-> SellersTrade,
            swap_tx_input_peers_partial_signature |->
                Unwrap(Unwrap(replies[BuyersTrade]["get_partial_signatures"])
                           .swap_tx_input_scalar).bytes])
    /\ Relayed(SellersTrade, "sign_swap_tx")

NextTrade ==
    \/ TradeInitTrade
    \/ TradeGetNonceShares
    \/ TradeGetPartialSignatures
    \/ TradeSignDepositTx
    \/ TradeSignSwapTx

SpecTrade == Init /\ [][NextTrade]_vars

(***************************************************************************)
(* The handlers as the runtime's worker threads run them, step by step:    *)
(* a handler takes the store's mutex for its lookup (or insert), then the  *)
(* mutex of the trade's model, under which it calls into the model and     *)
(* makes its response; the guard and the handle are dropped at its return. *)
(***************************************************************************)
\* The handler returns before it calls into the model: a field is missing
\* or does not decode.
early_return(op, request) ==
    CASE op = "get_nonce_shares" ->
           IF ~my_try_into(request.buyer_output_peers_pub_key_share, "").ok
              \/ ~my_try_into(request.seller_output_peers_pub_key_share, "").ok
           THEN Some([code |-> "invalid_argument", message |-> "could not decode point"])
           ELSE None
      [] op = "get_partial_signatures" ->
           IF IsNone(request.peers_nonce_shares)
           THEN Some([code |-> "not_found", message |-> "missing request.peers_nonce_shares"])
           ELSE IF \E slot \in Slots :
                       ~my_try_into(Unwrap(request.peers_nonce_shares)[slot], "").ok
                THEN Some([code |-> "invalid_argument",
                           message |-> "could not decode pub nonce"])
                ELSE None
      [] op = "sign_deposit_tx" ->
           IF IsNone(request.peers_partial_signatures)
           THEN Some([code |-> "not_found",
                      message |-> "missing request.peers_partial_signatures"])
           ELSE IF \/ ~my_try_into(Unwrap(request.peers_partial_signatures)
                                       .peers_warning_tx_buyer_input_partial_signature, "").ok
                   \/ ~my_try_into(Unwrap(request.peers_partial_signatures)
                                       .peers_warning_tx_seller_input_partial_signature, "").ok
                   \/ ~my_try_into(Unwrap(request.peers_partial_signatures)
                                       .peers_redirect_tx_input_partial_signature, "").ok
                   \/ /\ IsSome(Unwrap(request.peers_partial_signatures).swap_tx_input_scalar)
                      /\ ~SwapTxInputScalar_my_try_into(
                              Unwrap(Unwrap(request.peers_partial_signatures)
                                         .swap_tx_input_scalar)).ok
                THEN Some([code |-> "invalid_argument", message |-> "could not decode scalar"])
                ELSE None
      [] op = "sign_swap_tx" ->
           IF ~my_try_into(request.swap_tx_input_peers_partial_signature, "").ok
           THEN Some([code |-> "invalid_argument", message |-> "could not decode scalar"])
           ELSE None
      [] op = "close_trade" ->
           IF /\ IsSome(request.my_output_peers_prv_key_share)
              /\ ~my_try_into_Scalar(Unwrap(request.my_output_peers_prv_key_share)).ok
           THEN Some([code |-> "invalid_argument", message |-> "could not decode scalar"])
           ELSE None
      [] OTHER -> None

\* The model after the handler's first call into it, which stores what the
\* request carries.
first_call(op, m, request) ==
    CASE op = "get_nonce_shares" ->
           TradeModel_set_peer_key_shares(m,
               my_try_into(request.buyer_output_peers_pub_key_share, "").val,
               my_try_into(request.seller_output_peers_pub_key_share, "").val)
      [] op = "get_partial_signatures" ->
           TradeModel_set_peer_nonce_shares(m,
               [slot \in Slots |->
                   my_try_into(Unwrap(request.peers_nonce_shares)[slot], "").val])
      [] op = "sign_deposit_tx" ->
           TradeModel_set_peer_partial_signatures_on_my_txs(m,
               ExchangedSigs(
                   my_try_into(Unwrap(request.peers_partial_signatures)
                                   .peers_warning_tx_buyer_input_partial_signature, "").val,
                   my_try_into(Unwrap(request.peers_partial_signatures)
                                   .peers_warning_tx_seller_input_partial_signature, "").val,
                   my_try_into(Unwrap(request.peers_partial_signatures)
                                   .peers_redirect_tx_input_partial_signature, "").val,
                   IF IsNone(Unwrap(request.peers_partial_signatures).swap_tx_input_scalar)
                   THEN None
                   ELSE SwapTxInputScalar_my_try_into(
                            Unwrap(Unwrap(request.peers_partial_signatures)
                                       .swap_tx_input_scalar)).val))
      [] op = "sign_swap_tx" ->
           TradeModel_set_swap_tx_input_peers_partial_signature(m,
               my_try_into(request.swap_tx_input_peers_partial_signature, "").val).m
      [] op = "close_trade" ->
           IF IsSome(request.my_output_peers_prv_key_share)
           THEN TradeModel_set_peer_private_key_share_for_my_output(m,
                    my_try_into_Scalar(Unwrap(request.my_output_peers_prv_key_share)).val).m
           ELSE m
      [] OTHER -> m

\* The handler from its first call into the model to its return: the
\* model's own work (aggregation, nonces, signing) and the response.
after_first_call(op, m, request) ==
    CASE op = "get_nonce_shares" ->
           get_nonce_shares_init_my_nonce_shares(request, TradeModel_aggregate_key_shares(m))
      [] op = "get_partial_signatures" ->
           get_partial_signatures_sign_partial(TradeModel_aggregate_nonce_shares(m))
      [] op = "sign_deposit_tx" ->
           sign_deposit_tx_response(TradeModel_aggregate_partial_signatures(m))
      [] op = "sign_swap_tx" ->
           sign_swap_tx_response(TradeModel_aggregate_swap_tx_partial_signatures(m))
      [] op = "close_trade" -> close_trade_response(Result(m, "Ok", <<>>))
      [] OTHER -> MyMuSig_publish_deposit_tx(m)

\* The handles the threads hold (their clones of the Arc), t's left out.
HeldByOthers(t) ==
    {Unwrap(tasks[u].trade_model) : u \in {v \in Threads \ {t} : IsSome(tasks[v].trade_model)}}

\* The heap once t drops the handle h: the model is freed when neither the
\* store nor another thread holds the handle.
Dropped(hp, st, t, h) ==
    IF (\E trade_id \in TradeIds : st[trade_id] = Some(h)) \/ h \in HeldByOthers(t)
    THEN hp
    ELSE [hp EXCEPT ![h] = None]

\* An idle worker thread takes up a call: the handler is at its first
\* statement.
Started(t, op, request, pc) ==
    /\ ncalls < MaxCalls
    /\ ncalls' = ncalls + 1
    /\ tasks' = [tasks EXCEPT ![t] = [IdleTask EXCEPT !.pc = pc, !.op = op,
                                                       !.request = request]]
    /\ UNCHANGED <<store, heap, last, replies, store_mutex, trade_mutex>>

\* The handler returns before it has taken any mutex.
ReturnedEarly(t, op, request, reply) ==
    /\ ncalls < MaxCalls
    /\ ncalls' = ncalls + 1
    /\ last' = Outcome(op, request, reply)
    /\ UNCHANGED <<store, heap, replies, tasks, store_mutex, trade_mutex>>

\* The roles the clients ask for at one time: one that the service knows
\* for each party, and an enum value it does not know.
ConcRoles ==
    {[known |-> TRUE, role |-> "BuyerAsMaker"], [known |-> TRUE, role |-> "SellerAsTaker"],
     [known |-> FALSE, role |-> "SellerAsMaker"]}

\* init_trade, up to its call of add_trade_model: the model is made before
\* any mutex is taken.
ConcInitTrade(t) ==
    /\ tasks[t].pc = "idle"
    /\ \E trade_id \in ServedTradeIds, my_role \in ConcRoles :
            IF MyMuSig_init_trade([trade_id |-> trade_id, my_role |-> my_role]).code = "ok"
            THEN Started(t, "init_trade", [trade_id |-> trade_id, my_role |-> my_role],
                         "add_trade_model")
            ELSE ReturnedEarly(t, "init_trade", [trade_id |-> trade_id, my_role |-> my_role],
                               MyMuSig_init_trade([trade_id |-> trade_id, my_role |-> my_role]))

ConcGetNonceShares(t) ==
    /\ tasks[t].pc = "idle"
    /\ \E trade_id \in ServedTradeIds, b \in StorePoints, amount \in Amounts :
            Started(t, "get_nonce_shares",
                    [trade_id |-> trade_id,
                     buyer_output_peers_pub_key_share |-> b,
                     seller_output_peers_pub_key_share |-> Serialize(PeerKeyShare),
                     trade_amount |-> amount,
                     buyers_security_deposit |-> amount,
                     sellers_security_deposit |-> amount,
                     deposit_tx_fee_rate |-> amount,
                     prepared_tx_fee_rate |-> amount],
                    "get_trade_model")

ConcGetPartialSignatures(t) ==
    /\ tasks[t].pc = "idle"
    /\ \E trade_id \in ServedTradeIds :
            Started(t, "get_partial_signatures",
                    [trade_id |-> trade_id,
                     peers_nonce_shares |->
                         Some([slot \in Slots |-> Serialize(PeerNonce(NonceSeed))])],
                    "get_trade_model")

ConcSignDepositTx(t) ==
    /\ tasks[t].pc = "idle"
    /\ \E trade_id \in ServedTradeIds :
            Started(t, "sign_deposit_tx",
                    [trade_id |-> trade_id,
                     peers_partial_signatures |->
                         WirePartialSignatures(ModelOf(trade_id), <<"valid", "absent">>)],
                    "get_trade_model")

ConcPublishDepositTx(t) ==
    /\ tasks[t].pc = "idle"
    /\ \E trade_id \in ServedTradeIds :
            Started(t, "publish_deposit_tx", [trade_id |-> trade_id], "get_trade_model")

ConcSignSwapTx(t) ==
    /\ tasks[t].pc = "idle"
    /\ \E trade_id \in ServedTradeIds :
            Started(t, "sign_swap_tx",
                    [trade_id |-> trade_id,
                     swap_tx_input_peers_partial_signature |->
                         WireSig(ModelOf(trade_id), "swap_tx_input_sig_ctx", "valid")],
                    "get_trade_model")

ConcCloseTrade(t) ==
    /\ tasks[t].pc = "idle"
    /\ \E trade_id \in ServedTradeIds, share \in {None, Some(Serialize(ScalarOne))} :
            Started(t, "close_trade",
                    [trade_id |-> trade_id, my_output_peers_prv_key_share |-> share],
                    "get_trade_model")

\* self.lock().unwrap() of TradeModelStore: the thread blocks while another
\* thread holds the store's mutex.
LockStore(t) ==
    /\ tasks[t].pc \in {"get_trade_model", "add_trade_model"}
    /\ IsNone(store_mutex)
    /\ store_mutex' = Some(t)
    /\ tasks' = [tasks EXCEPT ![t].pc = "in_store"]
    /\ UNCHANGED <<store, heap, last, ncalls, replies, trade_mutex>>

\* add_trade_model that, for an id the store holds, puts the new model
\* behind the handle the store holds already.
AddTradeModel_in_place(t) ==
    /\ tasks[t].pc = "in_store"
    /\ tasks[t].op = "init_trade"
    /\ {g \in Handles : IsNone(heap[g])} # {}
    /\ store' = IF IsNone(store[tasks[t].request.trade_id])
                THEN [store EXCEPT ![tasks[t].request.trade_id] = Some(FreeHandle(heap))]
                ELSE store
    /\ heap' = [heap EXCEPT ![Unwrap(store'[tasks[t].request.trade_id])] =
                    MyMuSig_init_trade(tasks[t].request).m]
    /\ store_mutex' = None
    /\ last' = Outcome("init_trade", tasks[t].request, MyMuSig_init_trade(tasks[t].request))
    /\ tasks' = [tasks EXCEPT ![t] = IdleTask]
    /\ UNCHANGED <<ncalls, replies, trade_mutex>>

\* TradeModelStore::add_trade_model under the store's mutex, and the return
\* of init_trade: the new handle is made, the handle the store held under
\* the id is dropped, the guard is dropped.
AddTradeModel(t) ==
    /\ tasks[t].pc = "in_store"
    /\ tasks[t].op = "init_trade"
    /\ {g \in Handles : IsNone(heap[g])} # {}
    /\ store' = [store EXCEPT ![tasks[t].request.trade_id] = Some(FreeHandle(heap))]
    /\ heap' = IF IsNone(store[tasks[t].request.trade_id])
               THEN [heap EXCEPT ![FreeHandle(heap)] = MyMuSig_init_trade(tasks[t].request).m]
               ELSE Dropped([heap EXCEPT ![FreeHandle(heap)] =
                                 MyMuSig_init_trade(tasks[t].request).m],
                            store', t, Unwrap(store[tasks[t].request.trade_id]))
    /\ store_mutex' = None
    /\ last' = Outcome("init_trade", tasks[t].request, MyMuSig_init_trade(tasks[t].request))
    /\ tasks' = [tasks EXCEPT ![t] = IdleTask]
    /\ UNCHANGED <<ncalls, replies, trade_mutex>>

\* get_trade_model with its guard bound to a variable of the handler: the
\* store's mutex is held on.
GetTradeModel_guard_kept(t) ==
    /\ tasks[t].pc = "in_store"
    /\ tasks[t].op # "init_trade"
    /\ IF IsNone(get_trade_model(tasks[t].request.trade_id))
       THEN /\ last' = NotFound(tasks[t].op, tasks[t].request)
            /\ tasks' = [tasks EXCEPT ![t] = IdleTask]
            /\ store_mutex' = None
       ELSE /\ tasks' = [tasks EXCEPT ![t].pc = "lock",
                                      ![t].trade_model =
                                          get_trade_model(tasks[t].request.trade_id)]
            /\ UNCHANGED <<last, store_mutex>>
    /\ UNCHANGED <<store, heap, ncalls, replies, trade_mutex>>

\* TradeModelStore::get_trade_model under the store's mutex: the handle is
\* cloned and the guard dropped at the end of the statement; the handler
\* returns not_found when the store holds no handle for the id.
GetTradeModel(t) ==
    /\ tasks[t].pc = "in_store"
    /\ tasks[t].op # "init_trade"
    /\ store_mutex' = None
    /\ IF IsNone(get_trade_model(tasks[t].request.trade_id))
       THEN /\ last' = NotFound(tasks[t].op, tasks[t].request)
            /\ tasks' = [tasks EXCEPT ![t] = IdleTask]
       ELSE /\ tasks' = [tasks EXCEPT ![t].pc = "lock",
                                      ![t].trade_model =
                                          get_trade_model(tasks[t].request.trade_id)]
            /\ UNCHANGED last
    /\ UNCHANGED <<store, heap, ncalls, replies, trade_mutex>>

\* trade_model.lock().unwrap(): the thread blocks while another thread
\* holds the model's mutex.  `entered' keeps the model as the handler found
\* it (it is not state of the program).
LockTradeModel(t) ==
    /\ tasks[t].pc = "lock"
    /\ IsNone(trade_mutex[Unwrap(tasks[t].trade_model)])
    /\ trade_mutex' = [trade_mutex EXCEPT ![Unwrap(tasks[t].trade_model)] = Some(t)]
    /\ tasks' = [tasks EXCEPT ![t].pc = "locked",
                              ![t].entered = heap[Unwrap(tasks[t].trade_model)]]
    /\ UNCHANGED <<store, heap, last, ncalls, replies, store_mutex>>

\* The handler decodes its request and, unless it returns early, makes its
\* first call into the model, through the guard.
FirstCall(t) ==
    /\ tasks[t].pc = "locked"
    /\ heap' = IF IsSome(early_return(tasks[t].op, tasks[t].request)) THEN heap
               ELSE [heap EXCEPT ![Unwrap(tasks[t].trade_model)] =
                         Some(first_call(tasks[t].op,
                                         Unwrap(heap[Unwrap(tasks[t].trade_model)]),
                                         tasks[t].request))]
    /\ tasks' = [tasks EXCEPT ![t].pc = "called"]
    /\ UNCHANGED <<store, last, ncalls, replies, store_mutex, trade_mutex>>

\* The handler returns with reply: the guard is dropped, then the handle.
Unlocked(t, h, reply) ==
    /\ heap' = Dropped([heap EXCEPT ![h] = Some(reply.m)], store, t, h)
    /\ trade_mutex' = [trade_mutex EXCEPT ![h] = None]
    /\ last' = [Outcome(tasks[t].op, tasks[t].request, reply) EXCEPT !.found = TRUE]
    /\ tasks' = [tasks EXCEPT ![t] = IdleTask]
    /\ UNCHANGED <<store, ncalls, replies, store_mutex>>

\* The rest of the handler, to its return.
Return(t) ==
    /\ tasks[t].pc = "called"
    /\ Unlocked(t, Unwrap(tasks[t].trade_model),
                IF IsSome(early_return(tasks[t].op, tasks[t].request))
                THEN Failed(Unwrap(heap[Unwrap(tasks[t].trade_model)]),
                            Unwrap(early_return(tasks[t].op, tasks[t].request)).code,
                            Unwrap(early_return(tasks[t].op, tasks[t].request)).message,
                            <<>>)
                ELSE after_first_call(tasks[t].op,
                                      Unwrap(heap[Unwrap(tasks[t].trade_model)]),
                                      tasks[t].request))

NextConc ==
    \/ \E t \in Threads : ConcInitTrade(t)
    \/ \E t \in Threads : ConcGetNonceShares(t)
    \/ \E t \in Threads : ConcGetPartialSignatures(t)
    \/ \E t \in Threads : ConcSignDepositTx(t)
    \/ \E t \in Threads : ConcPublishDepositTx(t)
    \/ \E t \in Threads : ConcSignSwapTx(t)
    \/ \E t \in Threads : ConcCloseTrade(t)
    \/ \E t \in Threads : LockStore(t)
    \/ \E t \in Threads : AddTradeModel(t)
    \/ \E t \in Threads : GetTradeModel(t)
    \/ \E t \in Threads : LockTradeModel(t)
    \/ \E t \in Threads : FirstCall(t)
    \/ \E t \in Threads : Return(t)

SpecConc == Init /\ [][NextConc]_vars

(***************************************************************************)
(* Two trades served at a time: the buyer's and the seller's trade have    *)
(* been made by two calls of init_trade, and the worker threads take up    *)
(* calls for either.                                                       *)
(***************************************************************************)
TwoTradesRole(trade_id) ==
    [known |-> TRUE, role |-> IF trade_id = BuyersTrade THEN "BuyerAsMaker" ELSE "SellerAsTaker"]

InitTwoTrades ==
    /\ store = [trade_id \in TradeIds |-> Some(IF trade_id = BuyersTrade THEN 1 ELSE 2)]
    /\ heap = [h \in Handles |->
                  CASE h = 1 -> MyMuSig_init_trade([trade_id |-> BuyersTrade,
                                                    my_role |-> TwoTradesRole(BuyersTrade)]).m
                    [] h = 2 -> MyMuSig_init_trade([trade_id |-> SellersTrade,
                                                    my_role |-> TwoTradesRole(SellersTrade)]).m
                    [] OTHER -> None]
    /\ last = [Outcome("init_trade",
                       [trade_id |-> SellersTrade, my_role |-> TwoTradesRole(SellersTrade)],
                       MyMuSig_init_trade([trade_id |-> SellersTrade,
                                           my_role |-> TwoTradesRole(SellersTrade)]))
               EXCEPT !.found = FALSE]
    /\ ncalls = 2
    /\ Sequential

TwoTradesInitTrade(t) ==
    /\ tasks[t].pc = "idle"
    /\ \E trade_id \in TradeIds :
            Started(t, "init_trade",
                    [trade_id |-> trade_id, my_role |-> TwoTradesRole(trade_id)],
                    "add_trade_model")

TwoTradesGetNonceShares(t) ==
    /\ tasks[t].pc = "idle"
    /\ \E trade_id \in TradeIds, amount \in Amounts :
            Started(t, "get_nonce_shares",
                    [trade_id |-> trade_id,
                     buyer_output_peers_pub_key_share |-> Serialize(PeerKeyShare),
                     seller_output_peers_pub_key_share |-> Serialize(PeerKeyShare),
                     trade_amount |-> amount,
                     buyers_security_deposit |-> amount,
                     sellers_security_deposit |-> amount,
                     deposit_tx_fee_rate |-> amount,
                     prepared_tx_fee_rate |-> amount],
                    "get_trade_model")

TwoTradesGetPartialSignatures(t) ==
    /\ tasks[t].pc = "idle"
    /\ \E trade_id \in TradeIds :
            Started(t, "get_partial_signatures",
                    [trade_id |-> trade_id,
                     peers_nonce_shares |->
                         Some([slot \in Slots |-> Serialize(PeerNonce(NonceSeed))])],
                    "get_trade_model")

TwoTradesSignDepositTx(t) ==
    /\ tasks[t].pc = "idle"
    /\ \E trade_id \in TradeIds :
            Started(t, "sign_deposit_tx",
                    [trade_id |-> trade_id,
                     peers_partial_signatures |->
                         WirePartialSignatures(ModelOf(trade_id), <<"valid", "absent">>)],
                    "get_trade_model")

TwoTradesPublishDepositTx(t) ==
    /\ tasks[t].pc = "idle"
    /\ \E trade_id \in TradeIds :
            Started(t, "publish_deposit_tx", [trade_id |-> trade_id], "get_trade_model")

TwoTradesSignSwapTx(t) ==
    /\ tasks[t].pc = "idle"
    /\ \E trade_id \in TradeIds :
            Started(t, "sign_swap_tx",
                    [trade_id |-> trade_id,
                     swap_tx_input_peers_partial_signature |->
                         WireSig(ModelOf(trade_id), "swap_tx_input_sig_ctx", "valid")],
                    "get_trade_model")

TwoTradesCloseTrade(t) ==
    /\ tasks[t].pc = "idle"
    /\ \E trade_id \in TradeIds :
            Started(t, "close_trade",
                    [trade_id |-> trade_id,
                     my_output_peers_prv_key_share |-> Some(Serialize(ScalarOne))],
                    "get_trade_model")

NextTwoTrades ==
    \/ \E t \in Threads : TwoTradesInitTrade(t)
    \/ \E t \in Threads : TwoTradesGetNonceShares(t)
    \/ \E t \in Threads : TwoTradesGetPartialSignatures(t)
    \/ \E t \in Threads : TwoTradesSignDepositTx(t)
    \/ \E t \in Threads : TwoTradesPublishDepositTx(t)
    \/ \E t \in Threads : TwoTradesSignSwapTx(t)
    \/ \E t \in Threads : TwoTradesCloseTrade(t)
    \/ \E t \in Threads : LockStore(t)
    \/ \E t \in Threads : AddTradeModel(t)
    \/ \E t \in Threads : GetTradeModel(t)
    \/ \E t \in Threads : LockTradeModel(t)
    \/ \E t \in Threads : FirstCall(t)
    \/ \E t \in Threads : Return(t)

SpecTwoTrades == InitTwoTrades /\ [][NextTwoTrades]_vars

(***************************************************************************)
(* The core on its own: one TradeModel, as TradeModel::new made it, and    *)
(* any sequence of calls of its public operations.                         *)
(***************************************************************************)
TheTrade == "t1"

\* Calls made on the model in one run: as many as the rounds up to the
\* aggregation of the partial signatures take.
MaxModelCalls == 9

TheModel == StoredModel(TheTrade)

\* A call of a TradeModel operation on the model, with its arguments: the
\* model after it, and what it returned.
OnModel(op, args, reply) ==
    /\ ncalls < MaxModelCalls
    /\ ncalls' = ncalls + 1
    /\ UNCHANGED <<replies, tasks, store_mutex, trade_mutex>>
    /\ last' = Outcome(op, [trade_id |-> TheTrade, args |-> args], reply)
    /\ heap' = [heap EXCEPT ![Unwrap(store[TheTrade])] = Some(reply.m)]
    /\ UNCHANGED store

\* An operation that returns nothing.
Done(m) == Reply(m, "Ok", "", None, <<>>, None)

\* An operation that returns a Result<()>.
Returned(r) == Reply(r.m, r.res, "", None, r.calls, None)

\* An operation that reads the model and returns an Option.
Got(m, value) == Reply(m, "Ok", "", value, <<>>, None)

\* What a peer may hand over as its partial signatures on the party's txs:
\* three that verify, three that do not, or ("first") one that verifies
\* for the buyer input of the warning tx and two that do not.
PeerExchangedSigs(m, choice) ==
    ExchangedSigs(
        PeerPartialSignature(m, MyBuyerInputSlot(m),
                             IF choice[1] = "first" THEN "valid" ELSE choice[1]),
        PeerPartialSignature(m, MySellerInputSlot(m), choice[1]),
        PeerPartialSignature(m, MyRedirectSlot(m), choice[1]),
        CASE choice[2] = "absent" -> None
          [] choice[2] = "partial" ->
               Some(BuyersPartialSignature(
                        PeerPartialSignature(m, "swap_tx_input_sig_ctx", "valid")))
          [] choice[2] = "adaptor" ->
               Some(SellersAdaptor(AdaptorOf(ScalarOne,
                        PeerPartialSignature(m, "swap_tx_input_sig_ctx", "valid")))))

InitMyKeyShares ==
    OnModel("init_my_key_shares", <<>>, Done(TradeModel_init_my_key_shares(TheModel)))

GetMyKeyShares ==
    OnModel("get_my_key_shares", <<>>, Got(TheModel, TradeModel_get_my_key_shares(TheModel)))

SetPeerKeyShares ==
    \E b \in Points, s \in Points :
        OnModel("set_peer_key_shares", <<b, s>>,
                Done(TradeModel_set_peer_key_shares(TheModel, b, s)))

AggregateKeyShares ==
    OnModel("aggregate_key_shares", <<>>, Returned(TradeModel_aggregate_key_shares(TheModel)))

InitMyNonceShares ==
    OnModel("init_my_nonce_shares", <<>>, Returned(TradeModel_init_my_nonce_shares(TheModel)))

GetMyNonceShares ==
    OnModel("get_my_nonce_shares", <<>>, Got(TheModel, TradeModel_get_my_nonce_shares(TheModel)))

SetPeerNonceShares ==
    \E seed \in 0..MaxSeed :
        OnModel("set_peer_nonce_shares", <<seed>>,
                Done(TradeModel_set_peer_nonce_shares(TheModel,
                         [slot \in Slots |-> PeerNonce(seed)])))

AggregateNonceShares ==
    OnModel("aggregate_nonce_shares", <<>>,
            Returned(TradeModel_aggregate_nonce_shares(TheModel)))

SignPartial ==
    OnModel("sign_partial", <<>>, Returned(TradeModel_sign_partial(TheModel)))

GetMyPartialSignaturesOnPeerTxs ==
    OnModel("get_my_partial_signatures_on_peer_txs", <<>>,
            Got(TheModel, TradeModel_get_my_partial_signatures_on_peer_txs(TheModel)))

SetPeerPartialSignaturesOnMyTxs ==
    \E choice \in (SigChoices \X {"absent", "partial", "adaptor"}) \cup {<<"first", "absent">>} :
        OnModel("set_peer_partial_signatures_on_my_txs", choice,
                Done(TradeModel_set_peer_partial_signatures_on_my_txs(TheModel,
                         PeerExchangedSigs(TheModel, choice))))

AggregatePartialSignatures ==
    OnModel("aggregate_partial_signatures", <<>>,
            Returned(TradeModel_aggregate_partial_signatures(TheModel)))

SetSwapTxInputPeersPartialSignature ==
    \E choice \in SigChoices :
        OnModel("set_swap_tx_input_peers_partial_signature", <<choice>>,
                Returned(TradeModel_set_swap_tx_input_peers_partial_signature(TheModel,
                             PeerPartialSignature(TheModel, "swap_tx_input_sig_ctx", choice))))

AggregateSwapTxPartialSignatures ==
    OnModel("aggregate_swap_tx_partial_signatures", <<>>,
            Returned(TradeModel_aggregate_swap_tx_partial_signatures(TheModel)))

GetMyPrivateKeyShareForPeerOutput ==
    OnModel("get_my_private_key_share_for_peer_output", <<>>,
            Reply(TheModel, "Ok", "", None, <<>>,
                  TradeModel_get_my_private_key_share_for_peer_output(TheModel)))

SetPeerPrivateKeyShareForMyOutput ==
    \E prv_key_share \in Scalars :
        OnModel("set_peer_private_key_share_for_my_output", <<prv_key_share>>,
                Returned(TradeModel_set_peer_private_key_share_for_my_output(TheModel,
                             prv_key_share)))

InitModel ==
    /\ \E my_role \in Roles :
           heap = [h \in Handles |->
                      IF h = 1 THEN Some(TradeModel_new(TheTrade, my_role)) ELSE None]
    /\ store = [trade_id \in TradeIds |-> IF trade_id = TheTrade THEN Some(1) ELSE None]
    /\ last = NoCall
    /\ ncalls = 0
    /\ Sequential

NextModel ==
    \/ InitMyKeyShares
    \/ GetMyKeyShares
    \/ SetPeerKeyShares
    \/ AggregateKeyShares
    \/ InitMyNonceShares
    \/ GetMyNonceShares
    \/ SetPeerNonceShares
    \/ AggregateNonceShares
    \/ SignPartial
    \/ GetMyPartialSignaturesOnPeerTxs
    \/ SetPeerPartialSignaturesOnMyTxs
    \/ AggregatePartialSignatures
    \/ SetSwapTxInputPeersPartialSignature
    \/ AggregateSwapTxPartialSignatures
    \/ GetMyPrivateKeyShareForPeerOutput
    \/ SetPeerPrivateKeyShareForMyOutput

SpecModel == InitModel /\ [][NextModel]_vars

(***************************************************************************)
(* Properties of the service and of the core.                              *)
(***************************************************************************)
\* The trade the last call addressed is in the store, and its model.
LastTradeStored == last.trade_id \in TradeIds /\ HasTrade(last.trade_id)

LastModel == StoredModel(last.trade_id)

\* The model the store holds for trade_id after the step.
StoredModelAfter(trade_id) == Unwrap(heap'[Unwrap(store'[trade_id])])

\* The RPCs that work on an existing trade and may change its model.
TradeCalls ==
    {"get_nonce_shares", "get_partial_signatures", "sign_deposit_tx", "sign_swap_tx",
     "close_trade"}

\* The RPCs that return the private key share for the peer's output.
ReleaseCalls == {"sign_swap_tx", "close_trade"}

\* C1: once SigCtx::sign_partial has succeeded on a slot (the slot holds the
\* own partial signature), every later sign_partial on that slot fails with
\* NonceReuse, whatever calls were made in between.
C1_SignsAtMostOnce ==
    [][\A i \in 1..Len(last'.calls) :
          (/\ last'.calls[i].fn = "sign_partial"
           /\ IsSome(StoredModel(last'.trade_id)[last'.calls[i].slot].my_partial_sig))
          => last'.calls[i].res = "NonceReuse"]_vars

\* The errors of SigCtx::sign_partial for a missing prerequisite.
MissingErrors == {"MissingAggPubKey", "MissingKeyShare", "MissingNonceShare", "MissingAggNonce"}

\* C2: a SigCtx::sign_partial that returns an error for a missing
\* prerequisite leaves its SigCtx as it was before the call (the secret nonce
\* included).
C2_FailedSignPartialLeavesSigCtx ==
    [][\A i \in 1..Len(last'.calls) :
          (/\ last'.calls[i].fn = "sign_partial"
           /\ last'.calls[i].res \in MissingErrors)
          => StoredModelAfter(last'.trade_id)[last'.calls[i].slot]
                 = StoredModel(last'.trade_id)[last'.calls[i].slot]]_vars

\* C3: a call on an existing trade that returns an error status leaves the
\* model stored for the trade exactly as it was before the call.
C3_FailedCallLeavesTradeModel ==
    [][(/\ last'.op \in TradeCalls
        /\ last'.code # "ok"
        /\ HasTrade(last'.trade_id))
       => heap' = heap]_vars

\* The scalar a close_trade request carries decodes, and its base-point
\* multiple is not the key share the peer sent for the party's own output.
MismatchedKeyPair(request, m) ==
    /\ IsSome(request.my_output_peers_prv_key_share)
    /\ my_try_into_Scalar(Unwrap(request.my_output_peers_prv_key_share)).ok
    /\ IsSome(m[my_key_ctx(m.my_role)].peers_key_share)
    /\ BasePointMul(Unwrap(request.my_output_peers_prv_key_share).val)
           # Unwrap(m[my_key_ctx(m.my_role)].peers_key_share)

\* C4: a peer's private key share that does not match the public key share
\* received for the party's own output is rejected with MismatchedKeyPair.
C4_MismatchedKeyShareRejected ==
    (/\ last.op = "close_trade"
     /\ LastTradeStored
     /\ MismatchedKeyPair(last.request, LastModel))
    => last.code # "ok" /\ last.message = "MismatchedKeyPair"

\* The scalars (partial signatures, adaptors) a response carries.
ScalarsOf(outcome) ==
    IF outcome.op = "get_partial_signatures" /\ IsSome(outcome.response)
    THEN {Unwrap(outcome.response).peers_warning_tx_buyer_input_partial_signature,
          Unwrap(outcome.response).peers_warning_tx_seller_input_partial_signature,
          Unwrap(outcome.response).peers_redirect_tx_input_partial_signature}
         \cup (IF IsSome(Unwrap(outcome.response).swap_tx_input_scalar)
               THEN {Unwrap(Unwrap(outcome.response).swap_tx_input_scalar).bytes}
               ELSE {})
    ELSE {}

\* C5: no response of init_trade, get_nonce_shares, get_partial_signatures
\* or sign_deposit_tx on a buyer's trade carries the buyer's partial
\* signature on the swap tx.
C5_BuyersSwapTxSignatureWithheld ==
    (/\ last.op \in {"init_trade", "get_nonce_shares", "get_partial_signatures",
                     "sign_deposit_tx"}
     /\ LastTradeStored
     /\ am_buyer(LastModel.my_role)
     /\ IsSome(LastModel.swap_tx_input_sig_ctx.my_partial_sig))
    => Serialize(Unwrap(LastModel.swap_tx_input_sig_ctx.my_partial_sig)) \notin ScalarsOf(last)

\* The deposit-stage rounds have completed on a model: keys aggregated,
\* nonces aggregated, every slot signed, and the signatures on the party's
\* own warning and redirect txs aggregated.
DepositStageCompleted(m) ==
    /\ \A key_ctx \in KeyCtxs : IsSome(m[key_ctx].key_agg_ctx)
    /\ \A slot \in Slots : IsSome(m[slot].aggregated_nonce) /\ IsSome(m[slot].my_partial_sig)
    /\ \A slot \in {MyBuyerInputSlot(m), MySellerInputSlot(m), MyRedirectSlot(m)} :
           IsSome(m[slot].aggregated_sig)

\* C6: sign_swap_tx and close_trade return the private key share for the
\* peer's output only for a trade whose deposit-stage rounds have completed.
C6_KeyShareReleasedAfterDepositStage ==
    (/\ last.op \in ReleaseCalls
     /\ last.code = "ok"
     /\ LastTradeStored)
    => DepositStageCompleted(LastModel)

\* C7: the scalar sign_swap_tx or close_trade returns was read from the key
\* context of the peer's output (seller_output_key_ctx for a buyer,
\* buyer_output_key_ctx for a seller), is the own private key held there,
\* and the key context of the party's own output was not read.
C7_ReleasedShareIsForPeerOutput ==
    (/\ last.op \in ReleaseCalls
     /\ last.code = "ok"
     /\ LastTradeStored)
    => /\ IsSome(last.prv_key_share)
       /\ Unwrap(last.prv_key_share).key_ctx =
              (IF LastModel.my_role \in {"BuyerAsMaker", "BuyerAsTaker"}
               THEN "seller_output_key_ctx" ELSE "buyer_output_key_ctx")
       /\ Unwrap(last.response).peer_output_prv_key_share =
              Serialize(Unwrap(LastModel[Unwrap(last.prv_key_share).key_ctx].my_key_share).prv_key)

\* A buyer's sign_swap_tx has returned a private key share.
C7_Released ==
    /\ last.op = "sign_swap_tx"
    /\ last.code = "ok"
    /\ LastTradeStored
    /\ am_buyer(LastModel.my_role)
    /\ IsSome(last.prv_key_share)

\* The key context the peer holds for the same output, once it has this
\* party's key share: the roles and the shares are exchanged.
PeersKeyCtx(key_ctx) ==
    [KeyCtx_default EXCEPT
        !.am_buyer = ~key_ctx.am_buyer,
        !.my_key_share = Some([pub_key |-> Unwrap(key_ctx.peers_key_share),
                               prv_key |-> Unwrap(key_ctx.peers_key_share).mul]),
        !.peers_key_share = Some(Unwrap(key_ctx.my_key_share).pub_key)]

\* The buyer's and the seller's key share of a key context.
BuyersKeyShare(key_ctx) ==
    IF key_ctx.am_buyer THEN Unwrap(key_ctx.my_key_share).pub_key
    ELSE Unwrap(key_ctx.peers_key_share)

SellersKeyShare(key_ctx) ==
    IF key_ctx.am_buyer THEN Unwrap(key_ctx.peers_key_share)
    ELSE Unwrap(key_ctx.my_key_share).pub_key

\* C8: KeyCtx::aggregate_key_shares aggregates the buyer's share first and
\* the seller's second, so that the peer, aggregating the same two shares
\* for the same output, gets the same aggregated public key.
C8_SameAggregatedKeyOnBothSides ==
    \A i \in 1..Len(last.calls) :
        (/\ last.calls[i].fn = "aggregate_key_shares"
         /\ last.calls[i].res = "Ok"
         /\ LastTradeStored)
        => LET key_ctx == LastModel[last.calls[i].key_ctx]
           IN /\ Unwrap(key_ctx.key_agg_ctx).pubkeys
                     = <<BuyersKeyShare(key_ctx), SellersKeyShare(key_ctx)>>
              /\ KeyCtx_aggregate_key_shares(PeersKeyCtx(key_ctx)).ctx.aggregated_pub_key
                     = key_ctx.aggregated_pub_key

\* A seller and a buyer have each aggregated its key share with a peer's
\* share that differs from it, so that the order of the two shows.
C8_Aggregated ==
    /\ Len(last.calls) >= 2
    /\ last.calls[1].fn = "aggregate_key_shares"
    /\ last.calls[1].res = "Ok"
    /\ last.calls[2].res = "Ok"
    /\ LastTradeStored
    /\ ~am_buyer(LastModel.my_role)
    /\ \A key_ctx \in KeyCtxs :
           /\ IsSome(LastModel[key_ctx].aggregated_pub_key)
           /\ Unwrap(LastModel[key_ctx].peers_key_share)
                  # Unwrap(LastModel[key_ctx].my_key_share).pub_key

\* The seller's public key share for the buyer output, as a model holds it.
SellersBuyerOutputKeyShare(m) == SellersKeyShare(m.buyer_output_key_ctx)

\* C9: once both key contexts of a trade are aggregated (round R1), the
\* swap-tx-input adaptor of its model is set and is the seller's public key
\* share for the buyer output.
C9_AdaptorPointSetAfterR1 ==
    \A trade_id \in TradeIds :
        (/\ HasTrade(trade_id)
         /\ \A key_ctx \in KeyCtxs : IsSome(StoredModel(trade_id)[key_ctx].key_agg_ctx))
        => /\ IsSome(StoredModel(trade_id).swap_tx_input_adaptor)
           /\ Unwrap(StoredModel(trade_id).swap_tx_input_adaptor)
                  = SellersBuyerOutputKeyShare(StoredModel(trade_id))

\* The fixed wiring of slots to key contexts: the buyer-input and
\* buyer-redirect slots to the buyer output, the four others to the seller
\* output.
Wiring(slot) ==
    IF slot \in {"buyers_warning_tx_buyer_input_sig_ctx",
                 "sellers_warning_tx_buyer_input_sig_ctx",
                 "buyers_redirect_tx_input_sig_ctx"}
    THEN "buyer_output_key_ctx"
    ELSE "seller_output_key_ctx"

\* C10: every SigCtx call that takes a key context is handed the one the
\* fixed wiring gives for its slot, whatever the role.
C10_WiringIsFixed ==
    \A i \in 1..Len(last.calls) :
        last.calls[i].fn \in {"init_my_nonce_share", "sign_partial",
                              "aggregate_partial_signatures"}
        => last.calls[i].key_ctx = Wiring(last.calls[i].slot)

\* C13: init_trade for a trade id the store holds returns ok, the store
\* then holds under that id the model just made (own key shares only) in
\* place of the earlier one, and the entries and models of the other trade
\* ids are as before.
C13_DuplicateIdOverwrites ==
    [][(/\ last'.op = "init_trade"
        /\ last'.found
        /\ my_try_into_Role(last'.request.my_role).ok)
       => /\ last'.code = "ok"
          /\ IsSome(store'[last'.trade_id])
          /\ StoredModelAfter(last'.trade_id)
                 = TradeModel_init_my_key_shares(
                       TradeModel_new(last'.trade_id,
                                      my_try_into_Role(last'.request.my_role).val))
          /\ \A other \in TradeIds \ {last'.trade_id} :
                 /\ store'[other] = store[other]
                 /\ IsSome(store[other])
                        => heap'[Unwrap(store[other])] = heap[Unwrap(store[other])]]_vars

\* init_trade has replaced a trade of the store, which holds another trade
\* that has the peer's key shares.
C13_Overwritten ==
    /\ last.op = "init_trade"
    /\ last.found
    /\ last.code = "ok"
    /\ \E other \in TradeIds \ {last.trade_id} :
           /\ HasTrade(other)
           /\ IsSome(StoredModel(other).buyer_output_key_ctx.peers_key_share)

\* The RPCs that look the trade up in the store.
LookupCalls == TradeCalls \cup {"publish_deposit_tx"}

\* C17: a call other than init_trade for a trade id the store does not hold
\* returns not_found, and leaves the store and every model as they were.
C17_MissingTradeNotFound ==
    [][(/\ last'.op \in LookupCalls
        /\ ~last'.found)
       => /\ last'.code = "not_found"
          /\ store' = store
          /\ heap' = heap]_vars

\* A call was made for a trade id the store did not hold, while it held
\* another trade.
C17_Missing ==
    /\ last.op \in LookupCalls
    /\ ~last.found
    /\ last.code = "not_found"
    /\ \E other \in TradeIds \ {last.trade_id} : HasTrade(other)

\* A field of the request does not decode.
Undecodable(op, request) ==
    CASE op = "init_trade" -> ~request.my_role.known
      [] op = "get_nonce_shares" ->
           \/ ~request.buyer_output_peers_pub_key_share.valid
           \/ ~request.seller_output_peers_pub_key_share.valid
      [] op = "get_partial_signatures" ->
           /\ IsSome(request.peers_nonce_shares)
           /\ \E slot \in Slots : ~Unwrap(request.peers_nonce_shares)[slot].valid
      [] op = "sign_deposit_tx" ->
           /\ IsSome(request.peers_partial_signatures)
           /\ LET wire == Unwrap(request.peers_partial_signatures)
              IN \/ ~wire.peers_warning_tx_buyer_input_partial_signature.valid
                 \/ ~wire.peers_warning_tx_seller_input_partial_signature.valid
                 \/ ~wire.peers_redirect_tx_input_partial_signature.valid
                 \/ /\ IsSome(wire.swap_tx_input_scalar)
                    /\ ~Unwrap(wire.swap_tx_input_scalar).bytes.valid
      [] op = "sign_swap_tx" -> ~request.swap_tx_input_peers_partial_signature.valid
      [] op = "close_trade" ->
           /\ IsSome(request.my_output_peers_prv_key_share)
           /\ ~Unwrap(request.my_output_peers_prv_key_share).valid
      [] OTHER -> FALSE

\* C18: a call with a field that does not decode returns invalid_argument
\* (out_of_range for an unknown role), and a call that returns one of the
\* two leaves the store and every model as they were.
C18_DecodeFailureLeavesState ==
    [][/\ (/\ last'.op = "init_trade" \/ last'.found
           /\ Undecodable(last'.op, last'.request))
          => last'.code = (IF last'.op = "init_trade" THEN "out_of_range"
                           ELSE "invalid_argument")
       /\ last'.code \in {"invalid_argument", "out_of_range"}
          => store' = store /\ heap' = heap]_vars

\* get_nonce_shares was called on a stored trade with a buyer-output key
\* share that decodes and a seller-output key share that does not.
C18_DecodeFailed ==
    /\ last.op = "get_nonce_shares"
    /\ last.found
    /\ last.request.buyer_output_peers_pub_key_share.valid
    /\ ~last.request.seller_output_peers_pub_key_share.valid
    /\ last.code = "invalid_argument"

\* C19: a SigCtx that holds the own partial signature has what signing
\* needs: the key context it is signed under holds both key shares and the
\* key aggregation context, and the SigCtx holds the own nonce pair, the
\* peer's public nonce and the aggregated nonce.
C19_SignedOnlyAfterPrerequisites ==
    \A trade_id \in TradeIds : HasTrade(trade_id) =>
        \A slot \in Slots :
            IsSome(StoredModel(trade_id)[slot].my_partial_sig)
            => /\ IsSome(StoredModel(trade_id)[PeerSigningKeyCtx(slot)].my_key_share)
               /\ IsSome(StoredModel(trade_id)[PeerSigningKeyCtx(slot)].peers_key_share)
               /\ IsSome(StoredModel(trade_id)[PeerSigningKeyCtx(slot)].key_agg_ctx)
               /\ IsSome(StoredModel(trade_id)[slot].my_nonce_share)
               /\ IsSome(StoredModel(trade_id)[slot].peers_nonce_share)
               /\ IsSome(StoredModel(trade_id)[slot].aggregated_nonce)

\* sign_partial has signed every slot of the model.
C19_Signed ==
    /\ last.op = "sign_partial"
    /\ last.code = "Ok"
    /\ \A slot \in Slots : IsSome(TheModel[slot].my_partial_sig)

\* The key contexts the model's aggregation of partial signatures hands to
\* a slot.
AggregationKeyCtxs(m, slot) ==
    LET plan == aggregate_partial_signatures_plan(m.my_role)
                    \o aggregate_swap_tx_partial_signatures_plan(m.my_role)
    IN {plan[i][2] : i \in {j \in 1..Len(plan) : plan[j][1] = slot}}

\* C20: a SigCtx that holds an aggregated signature holds the aggregated
\* nonce, the own and the peer's partial signature and a non-empty message,
\* and the key context it was aggregated under holds the key aggregation
\* context.
C20_AggregatedOnlyAfterPrerequisites ==
    \A trade_id \in TradeIds : HasTrade(trade_id) =>
        \A slot \in Slots :
            IsSome(StoredModel(trade_id)[slot].aggregated_sig)
            => /\ AggregationKeyCtxs(StoredModel(trade_id), slot) # {}
               /\ \A key_ctx \in AggregationKeyCtxs(StoredModel(trade_id), slot) :
                      IsSome(StoredModel(trade_id)[key_ctx].key_agg_ctx)
               /\ IsSome(StoredModel(trade_id)[slot].aggregated_nonce)
               /\ IsSome(StoredModel(trade_id)[slot].my_partial_sig)
               /\ IsSome(StoredModel(trade_id)[slot].peers_partial_sig)
               /\ IsSome(StoredModel(trade_id)[slot].message)
               /\ Unwrap(StoredModel(trade_id)[slot].message) # ""

\* aggregate_partial_signatures has aggregated the signatures on the
\* party's own warning and redirect txs.
C20_Aggregated ==
    /\ last.op = "aggregate_partial_signatures"
    /\ last.code = "Ok"
    /\ \A slot \in {MyBuyerInputSlot(TheModel), MySellerInputSlot(TheModel),
                     MyRedirectSlot(TheModel)} :
           IsSome(TheModel[slot].aggregated_sig)

\* Rounds R0..R4 are done on a model (keys aggregated, nonces aggregated,
\* every slot signed) and the peer's partial signatures on the party's own
\* txs were not received.
SignedWithoutPeerSignatures(m) ==
    /\ \A key_ctx \in KeyCtxs : IsSome(m[key_ctx].key_agg_ctx)
    /\ \A slot \in Slots : IsSome(m[slot].aggregated_nonce) /\ IsSome(m[slot].my_partial_sig)
    /\ \A slot \in {MyBuyerInputSlot(m), MySellerInputSlot(m), MyRedirectSlot(m)} :
           IsNone(m[slot].peers_partial_sig)

\* C14: aggregate_partial_signatures on a model that has signed but has not
\* received the peer's partial signatures fails with MissingPartialSig and
\* leaves every slot without an aggregated signature.
C14_AggregateWithoutPeerSignaturesFails ==
    [][(/\ last'.op = "aggregate_partial_signatures"
        /\ SignedWithoutPeerSignatures(TheModel))
       => /\ last'.code = "MissingPartialSig"
          /\ \A slot \in Slots : IsNone(StoredModelAfter(TheTrade)[slot].aggregated_sig)]_vars

\* aggregate_partial_signatures was called on a model that has signed and
\* has not received the peer's partial signatures.
C14_AggregatedWithoutPeerSignatures ==
    /\ last.op = "aggregate_partial_signatures"
    /\ last.code = "MissingPartialSig"
    /\ SignedWithoutPeerSignatures(TheModel)

\* The private keys a KeyCtx holds: that of the own key share, the struct
\* having no other field for one.
PrvKeysHeld(key_ctx) ==
    IF IsSome(key_ctx.my_key_share) THEN {Unwrap(key_ctx.my_key_share).prv_key} ELSE {}

\* C16: after a close_trade that was handed the peer's private key share and
\* returned ok, the key context of the party's own output, once aggregated,
\* holds a private key whose base-point multiple is its aggregated public
\* key.
C16_PeerPrivateKeyShareInstalled ==
    (/\ last.op = "close_trade"
     /\ last.code = "ok"
     /\ IsSome(last.request.my_output_peers_prv_key_share)
     /\ LastTradeStored
     /\ IsSome(LastModel[my_key_ctx(LastModel.my_role)].aggregated_pub_key))
    => \E prv_key \in PrvKeysHeld(LastModel[my_key_ctx(LastModel.my_role)]) :
           BasePointMul(prv_key)
               = Unwrap(LastModel[my_key_ctx(LastModel.my_role)].aggregated_pub_key)

\* The signatures on the party's own warning and redirect txs are
\* aggregated.
OwnTxsAggregated(m) ==
    \A slot \in {MyBuyerInputSlot(m), MySellerInputSlot(m), MyRedirectSlot(m)} :
        IsSome(m[slot].aggregated_sig)

\* C15: in a trade between an honest buyer and an honest seller every call
\* returns ok; a party whose sign_deposit_tx has returned holds aggregated
\* signatures on its own warning-tx inputs and redirect-tx input, and the
\* seller whose sign_swap_tx has returned holds the aggregated swap-tx
\* signature.
C15_HonestTradeCompletes ==
    /\ last.op # "none" => last.code = "ok"
    /\ \A trade_id \in TradeIds :
           IsSome(replies[trade_id]["sign_deposit_tx"])
           => HasTrade(trade_id) /\ OwnTxsAggregated(StoredModel(trade_id))
    /\ IsSome(replies[SellersTrade]["sign_swap_tx"])
       => IsSome(StoredModel(SellersTrade).swap_tx_input_sig_ctx.aggregated_sig)

\* Both parties have run the four rounds and the seller's sign_swap_tx has
\* returned.
C15_TradeCompleted ==
    /\ \A trade_id \in TradeIds : IsSome(replies[trade_id]["sign_deposit_tx"])
    /\ IsSome(replies[SellersTrade]["sign_swap_tx"])
    /\ am_buyer(StoredModel(BuyersTrade).my_role)
    /\ ~am_buyer(StoredModel(SellersTrade).my_role)

\* The handler of op as a whole, on the model m.
Handler(op, m, request) ==
    CASE op = "get_nonce_shares" -> MyMuSig_get_nonce_shares(m, request)
      [] op = "get_partial_signatures" -> MyMuSig_get_partial_signatures(m, request)
      [] op = "sign_deposit_tx" -> MyMuSig_sign_deposit_tx(m, request)
      [] op = "sign_swap_tx" -> MyMuSig_sign_swap_tx(m, request)
      [] op = "close_trade" -> MyMuSig_close_trade(m, request)
      [] OTHER -> MyMuSig_publish_deposit_tx(m)

\* The thread holds the mutex of a model.
InCriticalSection(t) == tasks[t].pc \in {"locked", "called"}

\* Between taking the mutex and its first call the handler finds the model
\* as it was when it took the mutex; and a handler that returns has replied,
\* and left the model, as the handler run alone on the model it found.
Serialized ==
    /\ \A t \in Threads :
           tasks'[t].pc = "locked"
           => heap'[Unwrap(tasks'[t].trade_model)] = tasks'[t].entered
    /\ \A t \in Threads :
           (tasks[t].pc = "called" /\ tasks'[t].pc = "idle")
           => /\ last' = [Outcome(tasks[t].op, tasks[t].request,
                                  Handler(tasks[t].op, Unwrap(tasks[t].entered),
                                          tasks[t].request))
                             EXCEPT !.found = TRUE]
              /\ heap'[Unwrap(tasks[t].trade_model)]
                     \in {None, Some(Handler(tasks[t].op, Unwrap(tasks[t].entered),
                                             tasks[t].request).m)}

\* At most one handler called for trade_id is in its critical section.
OneHandlerPerTradeId ==
    \A trade_id \in TradeIds :
        Cardinality({t \in Threads : /\ InCriticalSection(t)
                                     /\ tasks[t].request.trade_id = trade_id}) <= 1

\* C11: of the handlers that run at one time for one trade id,
\* at most one is in its critical section, and each leaves the model as it
\* would when run alone, one handler after another.
C11_OneHandlerPerTradeId == [][OneHandlerPerTradeId' /\ Serialized]_vars

\* The next step of the handler waits for no mutex that is held (and, at
\* add_trade_model, a handle can be made).
CanStep(t) ==
    \/ tasks[t].pc \in {"get_trade_model", "add_trade_model"} /\ IsNone(store_mutex)
    \/ /\ tasks[t].pc = "in_store"
       /\ tasks[t].op = "init_trade" => {g \in Handles : IsNone(heap[g])} # {}
    \/ tasks[t].pc = "lock" /\ IsNone(trade_mutex[Unwrap(tasks[t].trade_model)])
    \/ InCriticalSection(t)

\* C12: the thread that holds the store's mutex is at the store's insert or
\* lookup, holds no handle and no model's mutex; and while a handler is in
\* flight, some handler can take its next step.
C12_StoreMutexHeldAlone ==
    /\ \A t \in Threads :
           store_mutex = Some(t)
           => /\ tasks[t].pc = "in_store"
              /\ IsNone(tasks[t].trade_model)
              /\ \A h \in Handles : trade_mutex[h] # Some(t)
    /\ (\E t \in Threads : tasks[t].pc # "idle") => \E t \in Threads : CanStep(t)

\* A thread holds the store's mutex while another is in the critical
\* section of a model.
C12_StoreAndTradeMutexHeld ==
    \E t \in Threads, u \in Threads :
        /\ store_mutex = Some(t)
        /\ tasks[u].pc = "called"
        /\ trade_mutex[Unwrap(tasks[u].trade_model)] = Some(u)

\* The slot has only moved forward between the SigCtx `before' and the
\* SigCtx `after': what was set is still set, to the same value, a secret
\* nonce that was consumed is not available again, and the aggregated nonce
\* of a slot that has signed is the one it had.
MovedForward(before, after) ==
    /\ IsSome(before.my_nonce_share)
       => /\ IsSome(after.my_nonce_share)
          /\ Unwrap(after.my_nonce_share).pub_nonce = Unwrap(before.my_nonce_share).pub_nonce
          /\ IsNone(Unwrap(before.my_nonce_share).sec_nonce)
             => IsNone(Unwrap(after.my_nonce_share).sec_nonce)
    /\ IsSome(before.aggregated_nonce) => after.aggregated_nonce = before.aggregated_nonce
    /\ IsSome(before.my_partial_sig) => after.my_partial_sig = before.my_partial_sig
    /\ IsSome(before.aggregated_sig) => after.aggregated_sig = before.aggregated_sig

\* C22: over any sequence of TradeModel operations each SigCtx only moves
\* forward: its own nonce pair, aggregated nonce, own partial signature and
\* aggregated signature, once set, are not replaced or reset, and its secret
\* nonce does not return from consumed to available.
C22_SigCtxMovesForward ==
    [][\A slot \in Slots : MovedForward(TheModel[slot], StoredModelAfter(TheTrade)[slot])]_vars

\* The TradeModel operations that aggregate.
AggregateCalls ==
    {"aggregate_key_shares", "aggregate_nonce_shares", "aggregate_partial_signatures",
     "aggregate_swap_tx_partial_signatures"}

\* The aggregates of the model: aggregated key and key aggregation context
\* of each KeyCtx, aggregated nonce and aggregated signature of each SigCtx.
Aggregates(m) ==
    [keys |-> [k \in KeyCtxs |-> <<m[k].aggregated_pub_key, m[k].key_agg_ctx>>],
     sigs |-> [slot \in Slots |-> <<m[slot].aggregated_nonce, m[slot].aggregated_sig>>]]

\* C23: a TradeModel-level aggregate_* call that returns an error installs
\* nothing: every KeyCtx and SigCtx of the model, the slots processed before
\* the failing one included, has the aggregated key, aggregated nonce and
\* aggregated signature it had before the call.
C23_FailedAggregateInstallsNothing ==
    [][(last'.op \in AggregateCalls /\ last'.code # "Ok")
       => Aggregates(StoredModelAfter(TheTrade)) = Aggregates(TheModel)]_vars

\* The slots of the party's own warning and redirect txs.
MySlots(m) == {MyBuyerInputSlot(m), MySellerInputSlot(m), MyRedirectSlot(m)}

\* C24: a successful TradeModel::aggregate_partial_signatures (round R6)
\* aggregates the signatures of exactly the party's own three inputs, and
\* for a buyer also that of the swap-tx input: after it the buyer's
\* swap_tx_input_sig_ctx holds an aggregated signature.
C24_BuyerAggregatesSwapTxInR6 ==
    [][(last'.op = "aggregate_partial_signatures" /\ last'.code = "Ok")
       => /\ \A slot \in MySlots(TheModel) :
                 IsSome(StoredModelAfter(TheTrade)[slot].aggregated_sig)
          /\ \A slot \in Slots \ (MySlots(TheModel) \cup {"swap_tx_input_sig_ctx"}) :
                 StoredModelAfter(TheTrade)[slot].aggregated_sig = TheModel[slot].aggregated_sig
          /\ IF am_buyer(TheModel.my_role)
             THEN IsSome(StoredModelAfter(TheTrade).swap_tx_input_sig_ctx.aggregated_sig)
             ELSE StoredModelAfter(TheTrade).swap_tx_input_sig_ctx.aggregated_sig
                      = TheModel.swap_tx_input_sig_ctx.aggregated_sig]_vars

\* C25: publish_deposit_tx yields its confirmation event only for a trade
\* whose deposit-stage aggregate_partial_signatures has succeeded (the
\* signatures on the party's own txs are aggregated), and returns an error
\* for a trade that has not reached that state.
C25_PublishConfirmsAggregations ==
    (/\ last.op = "publish_deposit_tx"
     /\ LastTradeStored)
    => (last.code = "ok" <=> OwnTxsAggregated(LastModel))

\* The partial signatures the response of get_partial_signatures carries
\* are those of the slots of the PEER's warning and redirect txs.
ReturnedFromPeersTxsSlots(m, response) ==
    LET peer == IF am_buyer(m.my_role) THEN "sellers" ELSE "buyers"
        from(slot) == Serialize(Unwrap(m[slot].my_partial_sig))
    IN /\ response.peers_warning_tx_buyer_input_partial_signature =
              from(IF peer = "sellers" THEN "sellers_warning_tx_buyer_input_sig_ctx"
                   ELSE "buyers_warning_tx_buyer_input_sig_ctx")
       /\ response.peers_warning_tx_seller_input_partial_signature =
              from(IF peer = "sellers" THEN "sellers_warning_tx_seller_input_sig_ctx"
                   ELSE "buyers_warning_tx_seller_input_sig_ctx")
       /\ response.peers_redirect_tx_input_partial_signature =
              from(IF peer = "sellers" THEN "sellers_redirect_tx_input_sig_ctx"
                   ELSE "buyers_redirect_tx_input_sig_ctx")

\* A slot of the party's own txs holds, as the peer's partial signature,
\* the partial signature the peer made in its slot for the same transaction
\* input, on the slot's message and under the key context wired to the slot.
DepositedSlotToSlot(m, peers_m, slot) ==
    /\ IsSome(m[slot].peers_partial_sig)
    /\ m[slot].peers_partial_sig = peers_m[slot].my_partial_sig
    /\ Unwrap(m[slot].peers_partial_sig).message = Message(slot)
    /\ m[slot].message = Some(Message(slot))
    /\ Some(Unwrap(m[slot].peers_partial_sig).key_agg_ctx)
           = m[PeerSigningKeyCtx(slot)].key_agg_ctx

\* C26: between two honest parties the partial signatures are routed slot
\* to slot, in both directions: what get_partial_signatures returns comes
\* from the party's slots for the peer's warning tx buyer input, warning tx
\* seller input and redirect tx input, and sign_deposit_tx stores each as
\* peers_partial_sig in the peer's slot for the same transaction input.
C26_PartialSignaturesRoutedSlotToSlot ==
    \A trade_id \in TradeIds :
        /\ IsSome(replies[trade_id]["get_partial_signatures"])
           => ReturnedFromPeersTxsSlots(StoredModel(trade_id),
                                        Unwrap(replies[trade_id]["get_partial_signatures"]))
        /\ (last.op = "sign_deposit_tx" /\ last.trade_id = trade_id)
           => \A slot \in MySlots(StoredModel(trade_id)) :
                  DepositedSlotToSlot(StoredModel(trade_id),
                                      StoredModel(PeersTrade(trade_id)), slot)

\* A party's sign_deposit_tx has returned after the other party's: the
\* partial signatures have gone both ways.
C26_RoutedBothWays ==
    /\ last.op = "sign_deposit_tx"
    /\ last.code = "ok"
    /\ IsSome(replies[PeersTrade(last.trade_id)]["sign_deposit_tx"])

\* The swap-tx partial signature a peer hands over with its partial
\* signatures on the party's txs.
PeersSwapTxPartial(m) == PeerPartialSignature(m, "swap_tx_input_sig_ctx", "valid")

\* C27 (as stated): set_peer_partial_signatures_on_my_txs deposits the
\* peer's swap-tx partial signature in swap_tx_input_sig_ctx if and only if
\* the received signatures carry a swap-tx partial signature; otherwise the
\* slot's peers_partial_sig is left as it was.
C27_SwapTxPartialDepositedIffPresent ==
    [][last'.op = "set_peer_partial_signatures_on_my_txs"
       => StoredModelAfter(TheTrade).swap_tx_input_sig_ctx.peers_partial_sig
          = IF last'.request.args[2] = "partial"
            THEN Some(PeersSwapTxPartial(TheModel))
            ELSE TheModel.swap_tx_input_sig_ctx.peers_partial_sig]_vars

\* C27 (amended): set_peer_partial_signatures_on_my_txs deposits the swap-tx
\* partial signature in swap_tx_input_sig_ctx if and only if the party is
\* the seller and the received signatures carry a buyer's swap-tx partial
\* signature; on a buyer's model, and when the swap-tx scalar is absent or
\* is a seller's adaptor, the slot's peers_partial_sig is left as it was.
C27_SwapTxPartialDepositedOnSellersModel ==
    [][last'.op = "set_peer_partial_signatures_on_my_txs"
       => StoredModelAfter(TheTrade).swap_tx_input_sig_ctx.peers_partial_sig
          = IF last'.request.args[2] = "partial" /\ ~am_buyer(TheModel.my_role)
            THEN Some(PeersSwapTxPartial(TheModel))
            ELSE TheModel.swap_tx_input_sig_ctx.peers_partial_sig]_vars

\* A seller's model has been handed signatures that carry the buyer's
\* swap-tx partial signature, and holds it in the swap-tx slot.
C27_SellerHoldsSwapTxPartial ==
    /\ last.op = "set_peer_partial_signatures_on_my_txs"
    /\ last.request.args[2] = "partial"
    /\ ~am_buyer(TheModel.my_role)
    /\ IsSome(TheModel.swap_tx_input_sig_ctx.peers_partial_sig)

\* The role of the same side of the trade that made the offer when my_role
\* took it, and took it when my_role made it.
OtherTrader(my_role) ==
    CASE my_role = "SellerAsMaker" -> "SellerAsTaker"
      [] my_role = "SellerAsTaker" -> "SellerAsMaker"
      [] my_role = "BuyerAsMaker" -> "BuyerAsTaker"
      [] my_role = "BuyerAsTaker" -> "BuyerAsMaker"

\* Model m in the hands of the other trader of the same side.
OfOtherTrader(m) == [m EXCEPT !.my_role = OtherTrader(@)]

\* The call of operation op of TradeModel on model m, with the arguments
\* args the calls of the core are made with.
Operation(op, args, m) ==
    CASE op = "init_my_key_shares" -> Done(TradeModel_init_my_key_shares(m))
      [] op = "get_my_key_shares" -> Got(m, TradeModel_get_my_key_shares(m))
      [] op = "set_peer_key_shares" ->
           Done(TradeModel_set_peer_key_shares(m, args[1], args[2]))
      [] op = "aggregate_key_shares" -> Returned(TradeModel_aggregate_key_shares(m))
      [] op = "init_my_nonce_shares" -> Returned(TradeModel_init_my_nonce_shares(m))
      [] op = "get_my_nonce_shares" -> Got(m, TradeModel_get_my_nonce_shares(m))
      [] op = "set_peer_nonce_shares" ->
           Done(TradeModel_set_peer_nonce_shares(m, [slot \in Slots |-> PeerNonce(args[1])]))
      [] op = "aggregate_nonce_shares" -> Returned(TradeModel_aggregate_nonce_shares(m))
      [] op = "sign_partial" -> Returned(TradeModel_sign_partial(m))
      [] op = "get_my_partial_signatures_on_peer_txs" ->
           Got(m, TradeModel_get_my_partial_signatures_on_peer_txs(m))
      [] op = "set_peer_partial_signatures_on_my_txs" ->
           Done(TradeModel_set_peer_partial_signatures_on_my_txs(m,
                    PeerExchangedSigs(m, args)))
      [] op = "aggregate_partial_signatures" ->
           Returned(TradeModel_aggregate_partial_signatures(m))
      [] op = "set_swap_tx_input_peers_partial_signature" ->
           Returned(TradeModel_set_swap_tx_input_peers_partial_signature(m,
                        PeerPartialSignature(m, "swap_tx_input_sig_ctx", args[1])))
      [] op = "aggregate_swap_tx_partial_signatures" ->
           Returned(TradeModel_aggregate_swap_tx_partial_signatures(m))
      [] op = "get_my_private_key_share_for_peer_output" ->
           Reply(m, "Ok", "", None, <<>>,
                 TradeModel_get_my_private_key_share_for_peer_output(m))
      [] op = "set_peer_private_key_share_for_my_output" ->
           Returned(TradeModel_set_peer_private_key_share_for_my_output(m, args[1]))

\* Reply reply is what the call with outcome outcome returned, and leaves
\* the model that call left, in the hands of the other trader.
SameAsForOtherTrader(reply, outcome, after) ==
    /\ reply.m = OfOtherTrader(after)
    /\ reply.code = outcome.code
    /\ reply.response = outcome.response
    /\ reply.calls = outcome.calls
    /\ reply.prv_key_share = outcome.prv_key_share

\* C28: maker or taker makes no difference. The model of a maker is, but
\* for my_role, the model TradeModel::new makes for the taker of the same
\* side, and every operation made on a model with the same arguments in the
\* hands of the other trader of the same side returns the same result and
\* leaves the same model but for my_role: a seller as maker and a seller as
\* taker, and a buyer as maker and a buyer as taker, go through the same
\* states and results.
C28_MakerOrTakerAlike ==
    /\ OfOtherTrader(TheModel) = TradeModel_new(TheTrade, OtherTrader(TheModel.my_role))
    /\ [][SameAsForOtherTrader(Operation(last'.op, last'.request.args,
                                         OfOtherTrader(TheModel)),
                               last', StoredModelAfter(TheTrade))]_vars

\* A taker has aggregated the partial signatures on its txs.
C28_TakerAggregated ==
    /\ last.op = "aggregate_partial_signatures"
    /\ last.code = "Ok"
    /\ TheModel.my_role \in {"SellerAsTaker", "BuyerAsTaker"}

\* The private key share a seller's TradeModel::sign_partial derives the
\* adaptor from, as the key context read and the scalar found there.
SellersPrvKeyShareOfAdaptor(m) ==
    [key_ctx |-> seller_key_ctx, prv_key |-> Unwrap(m[seller_key_ctx].my_key_share).prv_key]

TradeOf(t) ==
    IF tasks[t].pc = "idle" THEN tasks'[t].request.trade_id ELSE tasks[t].request.trade_id

\* The step leaves alone what the store holds under trade_id: the handle,
\* the TradeModel behind it and its mutex.
LeftAlone(trade_id) ==
    /\ store'[trade_id] = store[trade_id]
    /\ IsSome(store[trade_id])
       => /\ heap'[Unwrap(store[trade_id])] = heap[Unwrap(store[trade_id])]
          /\ trade_mutex'[Unwrap(store[trade_id])] = trade_mutex[Unwrap(store[trade_id])]

\* The handle a handler holds, whose mutex it waits for or holds, is none
\* that the store holds under the id of another trade.
HoldsNoOtherTrade ==
    \A t \in Threads :
        IsSome(tasks[t].trade_model)
        => \A trade_id \in TradeIds \ {tasks[t].request.trade_id} :
               store[trade_id] # tasks[t].trade_model

\* C21: operations on different trades are independent. A step of a call
\* for one trade id leaves the handle, the TradeModel and the mutex stored
\* under every other id as they were, and the only per-trade mutex a handler
\* waits for or holds is that of a handle it got under the id of its own
\* call, never that of another trade.
C21_TradesIndependent ==
    [][/\ \A t \in Threads :
              tasks'[t] # tasks[t]
              => \A trade_id \in TradeIds \ {TradeOf(t)} : LeftAlone(trade_id)
       /\ tasks' = tasks => UNCHANGED <<store, heap, trade_mutex>>
       /\ HoldsNoOtherTrade']_vars

\* Two handlers are in their critical sections at a time, one for each
\* trade, and the one for the buyer's trade has changed the model.
C21_BothTradesInCriticalSection ==
    \E t \in Threads, u \in Threads :
        /\ tasks[t].pc = "called" /\ tasks[t].request.trade_id = BuyersTrade
        /\ tasks[u].pc = "called" /\ tasks[u].request.trade_id = SellersTrade
        /\ tasks[t].trade_model = store[BuyersTrade]
        /\ tasks[u].trade_model = store[SellersTrade]
        /\ heap[Unwrap(tasks[t].trade_model)] # tasks[t].entered

\* The call op on a trade with model m is out of order: the round it
\* follows has not been completed on m (get_nonce_shares has made no nonce
\* for some slot, get_partial_signatures no partial signature, or the
\* signatures on the party's own txs are not aggregated).
OutOfOrder(op, m) ==
    CASE op = "get_partial_signatures" -> \E slot \in Slots : IsNone(m[slot].my_nonce_share)
      [] op = "sign_deposit_tx" -> \E slot \in Slots : IsNone(m[slot].my_partial_sig)
      [] op \in {"publish_deposit_tx", "sign_swap_tx", "close_trade"} -> ~OwnTxsAggregated(m)
      [] OTHER -> FALSE

\* C30 (rejection of out-of-order calls): a call for a stored trade that
\* comes before the round it follows has been completed returns an error
\* status.
C30_OutOfOrderCallRejected ==
    [][(last'.found /\ OutOfOrder(last'.op, StoredModel(last'.trade_id)))
       => last'.code # "ok"]_vars

\* Thread t takes a step of the handler it runs.
HandlerStep(t) == tasks[t].pc # "idle" /\ tasks'[t] # tasks[t]

\* The worker threads are scheduled, and the mutexes are acquired, fairly:
\* a handler that can take its next step from some point on, the mutex it
\* waits for being free, takes it in the end.
FairlyScheduled ==
    \A t \in Threads :
        \/ []<>(tasks[t].pc = "idle" \/ ~CanStep(t))
        \/ []<><<HandlerStep(t)>>_vars

\* C30 (termination): under fair scheduling every call a worker thread has
\* taken up returns.
C30_EveryCallReturns ==
    FairlyScheduled => \A t \in Threads : (tasks[t].pc # "idle") ~> (tasks[t].pc = "idle")

\* The secret nonce the slot's own partial signature was made with, known
\* by its public nonce.
SignedWith(sig_ctx) == Unwrap(sig_ctx.my_partial_sig).pub_nonce

\* C31: within one TradeModel no secret nonce signs two different messages.
\* Any two slots that hold a partial signature of their own have made it
\* with distinct secret nonces, and a slot that holds a partial signature
\* and a secret nonce (its nonce pair was generated again after signing)
\* does not hold the secret nonce it signed with.
C31_NoSecretNonceSignsTwice ==
    /\ \A slot \in Slots, other \in Slots :
           (/\ slot # other
            /\ IsSome(TheModel[slot].my_partial_sig)
            /\ IsSome(TheModel[other].my_partial_sig))
           => SignedWith(TheModel[slot]) # SignedWith(TheModel[other])
    /\ \A slot \in Slots :
           (/\ IsSome(TheModel[slot].my_partial_sig)
            /\ IsSome(TheModel[slot].my_nonce_share)
            /\ IsSome(Unwrap(TheModel[slot].my_nonce_share).sec_nonce))
           => public_nonce(Unwrap(Unwrap(TheModel[slot].my_nonce_share).sec_nonce))
                  # SignedWith(TheModel[slot])

\* The slots of the peer's warning and redirect txs: the sellers_* slots of
\* a buyer's model, the buyers_* slots of a seller's.
PeersTxsSlots(my_role) ==
    IF my_role \in {"BuyerAsMaker", "BuyerAsTaker"}
    THEN {"sellers_warning_tx_buyer_input_sig_ctx", "sellers_warning_tx_seller_input_sig_ctx",
          "sellers_redirect_tx_input_sig_ctx"}
    ELSE {"buyers_warning_tx_buyer_input_sig_ctx", "buyers_warning_tx_seller_input_sig_ctx",
          "buyers_redirect_tx_input_sig_ctx"}

\* C32: a party never obtains a signature for the peer's punishment txs. In
\* every reachable state of a buyer's model the three sellers_* slots hold
\* neither a partial signature of the peer nor an aggregated signature, and
\* so do the three buyers_* slots of a seller's model.
C32_NoSignatureForPeersTxs ==
    \A slot \in PeersTxsSlots(TheModel.my_role) :
        /\ IsNone(TheModel[slot].peers_partial_sig)
        /\ IsNone(TheModel[slot].aggregated_sig)

\* The party has received the peer's partial signatures and aggregated the
\* signatures on its own txs, having signed in every slot.
C32_AggregatedOwnTxs ==
    /\ last.op = "aggregate_partial_signatures"
    /\ last.code = "Ok"
    /\ \A slot \in Slots : IsSome(TheModel[slot].my_partial_sig)
    /\ OwnTxsAggregated(TheModel)

\* C33: once a partial signature has been produced under a KeyCtx's
\* aggregated key, the KeyCtx's peer key share, aggregation context and
\* aggregated key never change again: over any sequence of RPCs, every own
\* partial signature a stored model holds was produced under the aggregation
\* context that the KeyCtx wired to its slot holds now.
C33_SignedUnderStoredKeyAggCtx ==
    \A trade_id \in TradeIds :
        HasTrade(trade_id)
        => \A slot \in Slots :
               IsSome(StoredModel(trade_id)[slot].my_partial_sig)
               => Some(Unwrap(StoredModel(trade_id)[slot].my_partial_sig).key_agg_ctx)
                      = StoredModel(trade_id)[PeerSigningKeyCtx(slot)].key_agg_ctx

\* C34: every TradeModel the store holds has its own key share in the KeyCtx
\* of the buyer's and of the seller's output, so that
\* get_my_private_key_share_for_peer_output returns a share for it, and no
\* sign_swap_tx or close_trade fails with "missing private key share".
C34_StoredModelHasOwnKeyShares ==
    /\ \A trade_id \in TradeIds :
           HasTrade(trade_id)
           => /\ \A key_ctx \in KeyCtxs : IsSome(StoredModel(trade_id)[key_ctx].my_key_share)
              /\ IsSome(TradeModel_get_my_private_key_share_for_peer_output(
                            StoredModel(trade_id)))
    /\ last.op \in {"sign_swap_tx", "close_trade"}
       => last.message # "missing private key share"

\* close_trade has returned the private key share of a stored trade, while
\* the store holds another trade.
C34_CloseTradeReturnedShare ==
    /\ last.op = "close_trade"
    /\ last.code = "ok"
    /\ IsSome(last.prv_key_share)
    /\ \A trade_id \in TradeIds : HasTrade(trade_id)

\* The model is as init_trade makes it: its own key shares only, no key
\* share, nonce or signature of the peer, nothing aggregated, no nonce and
\* no signature of its own.
FreshlyInitialised(m) ==
    /\ \A key_ctx \in KeyCtxs :
           /\ IsSome(m[key_ctx].my_key_share)
           /\ IsNone(m[key_ctx].peers_key_share)
           /\ IsNone(m[key_ctx].aggregated_pub_key)
           /\ IsNone(m[key_ctx].key_agg_ctx)
    /\ \A slot \in Slots :
           /\ IsNone(m[slot].my_nonce_share) /\ IsNone(m[slot].peers_nonce_share)
           /\ IsNone(m[slot].aggregated_nonce) /\ IsNone(m[slot].message)
           /\ IsNone(m[slot].my_partial_sig) /\ IsNone(m[slot].peers_partial_sig)
           /\ IsNone(m[slot].aggregated_sig)
    /\ IsNone(m.swap_tx_input_adaptor)

\* The handler that thread t runs holds a handle that the store does not
\* hold under the id of the call any more: the model behind it was replaced.
OnReplacedModel(t) ==
    /\ IsSome(tasks[t].trade_model)
    /\ tasks[t].trade_model # store[tasks[t].request.trade_id]

\* Thread t is at the insert of an init_trade, and takes the step.
Replaces(t) ==
    /\ tasks[t].pc = "in_store"
    /\ tasks[t].op = "init_trade"
    /\ tasks'[t] # tasks[t]

\* C35: an init_trade for an id, run while another handler for the id holds
\* the handle it got from get_trade_model, leaves that handler on the
\* replaced model and a freshly initialised model in the store. The handler
\* completes on the replaced model, replying as it would when run alone on
\* it, and no step it takes changes the handle or the model the store holds
\* under the id.
C35_HandlerCompletesOnReplacedModel ==
    [][\A t \in Threads :
           /\ Replaces(t)
              => /\ FreshlyInitialised(StoredModelAfter(tasks[t].request.trade_id))
                 /\ \A u \in Threads \ {t} :
                        (/\ IsSome(tasks[u].trade_model)
                         /\ tasks[u].request.trade_id = tasks[t].request.trade_id)
                        => /\ tasks'[u].trade_model # store'[tasks[t].request.trade_id]
                           /\ heap'[Unwrap(tasks[u].trade_model)] = heap[Unwrap(tasks[u].trade_model)]
           /\ (OnReplacedModel(t) /\ tasks'[t] # tasks[t])
              => /\ store' = store
                 /\ StoredModelAfter(tasks[t].request.trade_id)
                        = StoredModel(tasks[t].request.trade_id)
                 /\ tasks'[t].pc = "idle"
                    => last' = [Outcome(tasks[t].op, tasks[t].request,
                                        Handler(tasks[t].op, Unwrap(tasks[t].entered),
                                                tasks[t].request))
                                EXCEPT !.found = TRUE]]_vars

\* A handler has changed the model that an init_trade replaced after the
\* handler got its handle, and the store holds a freshly initialised model
\* under the id.
C35_ChangedReplacedModel ==
    \E t \in Threads :
        /\ OnReplacedModel(t)
        /\ tasks[t].pc = "called"
        /\ heap[Unwrap(tasks[t].trade_model)] # tasks[t].entered
        /\ FreshlyInitialised(StoredModel(tasks[t].request.trade_id))

\* C36: the two unwrap calls in the seller's branch of
\* TradeModel::sign_partial never fail. No call of the model panics, and
\* whenever a seller's sign_partial has signed in its seven slots the model
\* holds its own key share for the seller's output and its own partial
\* signature on the swap-tx input, from which the adaptor is made.
C36_SellersUnwrapsNeverFail ==
    /\ last.code # "Panic"
    /\ (/\ last.op = "sign_partial"
        /\ ~am_buyer(TheModel.my_role)
        /\ Len(last.calls) = Len(sign_partial_plan)
        /\ \A i \in 1..Len(last.calls) : last.calls[i].res = "Ok")
       => /\ last.code = "Ok"
          /\ IsSome(TheModel.seller_output_key_ctx.my_key_share)
          /\ IsSome(TheModel.swap_tx_input_sig_ctx.my_partial_sig)
          /\ IsSome(TheModel.swap_tx_input_adaptor)

\* A seller's sign_partial has signed in its seven slots and reached the
\* branch that makes the adaptor.
C36_SellerSigned ==
    /\ last.op = "sign_partial"
    /\ ~am_buyer(TheModel.my_role)
    /\ Len(last.calls) = Len(sign_partial_plan)
    /\ \A i \in 1..Len(last.calls) : last.calls[i].res = "Ok"

====
